---- MODULE Spec2Model ----
(***************************************************************************)
(* A model of storage/storage.go of clr-installer: the BlockDevice tree,   *)
(* the lsblk descriptor decoder and the discovery/merge engine with its    *)
(* process-wide cache.                                                     *)
(*                                                                         *)
(* Go pointers to BlockDevice are indices into the heap (0 is nil).  A Go  *)
(* slice is a record that keeps nil apart from empty; an error is a        *)
(* string, "" being the nil error.                                         *)
(***************************************************************************)
EXTENDS Integers, Sequences, FiniteSets, TLC

VARIABLES
    heap,            \* the BlockDevice objects: pointer -> fields
    avBlockDevices,  \* storage.go:154, the process-wide cache
    ret,             \* what the last call was given and what it returned
    probes,          \* the external commands the last call ran, in order
    input,           \* the bytes a decode is about to be given (SpecDecode)
    held             \* the devices the caller of the tree operations holds

vars == <<heap, avBlockDevices, ret, probes, input, held>>

----------------------------------------------------------------------------
(* Bounds of the model.                                                    *)

\* BlockDevice objects ever allocated in the tree specification
MaxTreeNodes == 8
\* length of a userDefined or medias argument
MaxUserDefined == 2
\* largest partition number handed to SetPartitionNumber
MaxPartition == 1
\* entries of a removedParts list
MaxRemoved == 1
\* the partitions lsblk reports under one device in the decoding
\* specification
MaxChildren == 2
\* steps of the caller in the tree specification
MaxCalls == 4
\* the rows of a partition table handed to findFree
MaxRows == 3

----------------------------------------------------------------------------
(* Go values.                                                              *)

NilPtr == 0

NilSlice == [isNil |-> TRUE, elems |-> <<>>]

MkSlice(s) == [isNil |-> FALSE, elems |-> s]

\* append(s, x): the result is never nil
AppendSlice(s, x) == [isNil |-> FALSE, elems |-> Append(s.elems, x)]

\* strings.Contains
Contains(s, sub) ==
    \E i \in 1..(Len(s) + 1 - Len(sub)) : SubSeq(s, i, i + Len(sub) - 1) = sub

Range(s) == {s[i] : i \in 1..Len(s)}

RECURSIVE Itoa(_)
\* fmt.Sprintf("%d", n) for n >= 0
Itoa(n) ==
    LET d == <<"0", "1", "2", "3", "4", "5", "6", "7", "8", "9">>[(n % 10) + 1]
    IN  IF n < 10 THEN d ELSE Itoa(n \div 10) \o d

\* BlockDeviceType, storage.go:91-114
BlockDeviceTypeDisk == 0
BlockDeviceTypePart == 1
BlockDeviceTypeRom == 2
BlockDeviceTypeLVM2Group == 3
BlockDeviceTypeLVM2Volume == 4
BlockDeviceTypeCrypt == 5
BlockDeviceTypeLoop == 6
BlockDeviceTypeUnknown == 7

\* BlockDeviceState, storage.go:116-126 (the iota goes on from the types)
BlockDeviceStateUnknown == 8
BlockDeviceStateRunning == 9
BlockDeviceStateLive == 10
BlockDeviceStateConnected == 11

blockDeviceTypeMap ==
    (BlockDeviceTypeDisk :> "disk") @@ (BlockDeviceTypePart :> "part") @@
    (BlockDeviceTypeCrypt :> "crypt") @@ (BlockDeviceTypeLoop :> "loop") @@
    (BlockDeviceTypeRom :> "rom") @@ (BlockDeviceTypeLVM2Group :> "LVM2_member") @@
    (BlockDeviceTypeLVM2Volume :> "lvm") @@ (BlockDeviceTypeUnknown :> "")

blockDeviceStateMap ==
    (BlockDeviceStateRunning :> "running") @@ (BlockDeviceStateLive :> "live") @@
    (BlockDeviceStateConnected :> "Connected") @@ (BlockDeviceStateUnknown :> "")

\* a nil []*PartedPartition
NilTable == [arr |-> 0, rows |-> <<>>]

\* a nil []uint64
NilParts == [arr |-> 0, elems |-> <<>>]

\* the zero value of BlockDevice (a Go int zero value is type disk)
ZeroBD ==
    [Name |-> "", MappedName |-> "", Model |-> "", MajorMinor |-> "",
     PtType |-> "", FsType |-> "", UUID |-> "", Serial |-> "",
     MountPoint |-> "", Label |-> "", Size |-> 0,
     Type |-> 0, State |-> 0,
     ReadOnly |-> FALSE, RemovableDevice |-> FALSE,
     Children |-> NilSlice, Parent |-> NilPtr,
     UserDefined |-> FALSE, MakePartition |-> FALSE, FormatPartition |-> FALSE,
     Options |-> "", available |-> FALSE, partition |-> 0,
     PartTable |-> NilTable, removedParts |-> NilParts]

\* the data fields of BlockDevice: all but Children and Parent and the two
\* shared lists
DataFields ==
    {"Name", "MappedName", "Model", "MajorMinor", "PtType", "FsType", "UUID",
     "Serial", "MountPoint", "Label", "Size", "Type", "State", "ReadOnly",
     "RemovableDevice", "UserDefined", "MakePartition", "FormatPartition",
     "Options", "available", "partition"}

----------------------------------------------------------------------------
(* The heap.                                                               *)

\* new(BlockDevice): the lowest pointer not in use
NewPtr(h) == CHOOSE p \in 1..(Cardinality(DOMAIN h) + 1) :
                 /\ p \notin DOMAIN h
                 /\ \A q \in 1..(p - 1) : q \in DOMAIN h

\* h with the object at p replaced (or added)
Put(h, p, bd) == (p :> bd) @@ h

kids(h, p) == h[p].Children.elems

RECURSIVE SubtreeN(_, _, _)
\* the objects reached from the pointers ps through Children, n levels deep
SubtreeN(h, ps, n) ==
    IF n = 0 \/ ps = {} THEN ps
    ELSE ps \cup SubtreeN(h, UNION {Range(kids(h, p)) : p \in ps} \ {NilPtr}, n - 1)

Subtree(h, p) == SubtreeN(h, {p}, Cardinality(DOMAIN h))

RECURSIVE Preorder(_, _)
\* the objects of the trees rooted at ps, parents before children
Preorder(h, ps) ==
    IF ps = <<>> THEN <<>>
    ELSE <<Head(ps)>> \o Preorder(h, kids(h, Head(ps))) \o Preorder(h, Tail(ps))

RECURSIVE Dedupe(_, _)
\* seq without the elements of seen and without repetitions, zeros dropped
Dedupe(seq, seen) ==
    IF seq = <<>> THEN <<>>
    ELSE IF Head(seq) \in seen \cup {0} THEN Dedupe(Tail(seq), seen)
    ELSE <<Head(seq)>> \o Dedupe(Tail(seq), seen \cup {Head(seq)})

RECURSIVE Order(_, _)
\* every object referenced from roots, through Children first and through
\* Parent last, each once
Order(h, roots) ==
    LET o == Dedupe(Preorder(h, roots), {})
        extra == {h[p].Parent : p \in Range(o)} \ (Range(o) \cup {NilPtr})
    IN  IF extra = {} THEN o
        ELSE Order(h, o \o <<CHOOSE x \in extra : \A y \in extra : x <= y>>)

\* the renaming that sends order[i] to i (and nil to nil)
Renaming(order) == [x \in Range(order) |-> CHOOSE i \in 1..Len(order) : order[i] = x]
                       @@ (0 :> 0)

MapSeq(f, seq) == [i \in 1..Len(seq) |-> f[seq[i]]]

\* the objects order lists, moved to the addresses 1, 2, ... in that order,
\* tables renamed alike: (the heap, the renaming)
compactIn(h, order) ==
    LET ren == Renaming(order)
        tabs == Renaming(Dedupe([i \in 1..Len(order) |-> h[order[i]].PartTable.arr], {}))
        lists == Renaming(Dedupe([i \in 1..Len(order) |-> h[order[i]].removedParts.arr], {}))
    IN  [h |-> [i \in 1..Len(order) |->
                   [h[order[i]] EXCEPT !.Parent = ren[@],
                                       !.Children.elems = MapSeq(ren, @),
                                       !.PartTable.arr = tabs[@],
                                       !.removedParts.arr = lists[@]]],
         ren |-> ren]

\* the objects still referenced from roots, at the addresses 1, 2, ... in the
\* order roots reaches them.  Which address an object has is not observable
\* in Go, only whether two pointers are equal; objects no longer referenced
\* are the collector's.
Compact(h, roots) == compactIn(h, Order(h, roots))

----------------------------------------------------------------------------
(* Whole numbers of 64 bits and float64, as the size parsers and the size  *)
(* formatter compute with them.                                            *)

\* A number beyond 2^31 is written as the sequence of its digits in base
\* 2^15, lowest first, without leading zeros: <<>> is 0, <<0, 1>> is 32768.
\* The operations work on all digits at once, on numbers below 2^150.
Base == 2^15

\* F of x, and F of x and y, with x and y worked out before F is entered
Then(x, F(_)) == CHOOSE r \in {F(v) : v \in {x}} : TRUE
Then2(x, y, F(_, _)) == CHOOSE r \in {F(v, w) : v \in {x}, w \in {y}} : TRUE

\* digit i of a, 0 beyond its length
Digit(a, i) == IF i >= 1 /\ i <= Len(a) THEN a[i] ELSE 0

Norm(a) ==
    SubSeq(a, 1, CHOOSE n \in 0..Len(a) :
                     /\ n > 0 => a[n] # 0
                     /\ \A i \in (n + 1)..Len(a) : a[i] = 0)

\* a whole number below 2^31 and back
FromInt(n) == Norm(<<n % Base, (n \div Base) % Base, n \div (Base * Base)>>)
ToInt(a) == Digit(a, 1) + Base * Digit(a, 2) + Base * Base * Digit(a, 3)

\* whether a + b carries into digit i
carryInto(a, b, i) ==
    \E j \in 1..(i - 1) :
        /\ Digit(a, j) + Digit(b, j) >= Base
        /\ \A k \in (j + 1)..(i - 1) : Digit(a, k) + Digit(b, k) = Base - 1

added(a, b) ==
    Norm([i \in 1..((IF Len(a) > Len(b) THEN Len(a) ELSE Len(b)) + 1) |->
             (Digit(a, i) + Digit(b, i) + (IF carryInto(a, b, i) THEN 1 ELSE 0)) % Base])

BAdd(a, b) == Then2(a, b, added)

\* whether a - b borrows from digit i
borrowFrom(a, b, i) ==
    \E j \in 1..(i - 1) :
        /\ Digit(a, j) < Digit(b, j)
        /\ \A k \in (j + 1)..(i - 1) : Digit(a, k) = Digit(b, k)

subtracted(a, b) ==
    Norm([i \in 1..Len(a) |->
             (Digit(a, i) - Digit(b, i) - (IF borrowFrom(a, b, i) THEN 1 ELSE 0)) % Base])

\* a - b for a >= b
BSub(a, b) == Then2(a, b, subtracted)

BLess(a, b) ==
    IF Len(a) # Len(b) THEN Len(a) < Len(b)
    ELSE \E i \in 1..Len(a) :
             a[i] < b[i] /\ \A j \in (i + 1)..Len(a) : a[j] = b[j]

\* a * Base^k
Up(a, k) == IF a = <<>> THEN <<>> ELSE [i \in 1..k |-> 0] \o a

\* a * m for a digit m: the low halves of the digit products plus the high
\* halves one place up
BTimes(a, m) ==
    BAdd(Norm([i \in 1..Len(a) |-> (a[i] * m) % Base]),
         Up(Norm([i \in 1..Len(a) |-> (a[i] * m) \div Base]), 1))

multiplied(a, b) ==
    BAdd(BAdd(BTimes(a, Digit(b, 1)), Up(BTimes(a, Digit(b, 2)), 1)),
         BAdd(Up(BTimes(a, Digit(b, 3)), 2), Up(BTimes(a, Digit(b, 4)), 3)))

\* a * b for b below 2^60
BMul(a, b) == Then2(a, b, multiplied)

\* Base^e % m for e below 16
baseMod(e, m) ==
    LET w1 == Base % m
        w2 == (w1 * w1) % m
        w4 == (w2 * w2) % m
        w8 == (w4 * w4) % m
    IN  ((((IF e % 2 = 1 THEN w1 ELSE 1) * (IF (e \div 2) % 2 = 1 THEN w2 ELSE 1)) % m)
            * (((IF (e \div 4) % 2 = 1 THEN w4 ELSE 1) * (IF e \div 8 = 1 THEN w8 ELSE 1)) % m))
        % m

\* what digit i + e of a adds to the remainder of the digits from i up
placeMod(a, m, i, e) == ((Digit(a, i + e) % m) * baseMod(e, m)) % m

\* the digits of a from digit i up, as a number, modulo m
remFrom(a, m, i) ==
    (placeMod(a, m, i, 0) + placeMod(a, m, i, 1) + placeMod(a, m, i, 2)
        + placeMod(a, m, i, 3) + placeMod(a, m, i, 4) + placeMod(a, m, i, 5)
        + placeMod(a, m, i, 6) + placeMod(a, m, i, 7) + placeMod(a, m, i, 8)
        + placeMod(a, m, i, 9)) % m

\* a \div m and a % m for m up to 2^14
BOver(a, m) ==
    [q |-> Norm([i \in 1..Len(a) |-> (remFrom(a, m, i + 1) * Base + a[i]) \div m]),
     r |-> remFrom(a, m, 1)]

\* a * 2^k and a \div 2^k
Shl(a, k) == Up(BTimes(a, 2^(k % 15)), k \div 15)
Shr(a, k) ==
    IF k \div 15 >= Len(a) THEN <<>>
    ELSE BOver(SubSeq(a, k \div 15 + 1, Len(a)), 2^(k % 15)).q

\* the number of binary digits of a
BitLen(a) ==
    IF a = <<>> THEN 0
    ELSE 15 * (Len(a) - 1) + CHOOSE k \in 1..15 : 2^(k - 1) <= a[Len(a)] /\ a[Len(a)] < 2^k

\* 10^k for k up to 18
Pow10(k) == IF k <= 9 THEN FromInt(10^k) ELSE BMul(FromInt(10^(k - 9)), FromInt(10^9))

DigitVal(c) == (CHOOSE i \in 1..10 : SubSeq("0123456789", i, i) = c) - 1

\* the digit of s that is i places before its last one, 0 before its first
placeVal(s, i) ==
    IF i < Len(s) THEN DigitVal(SubSeq(s, Len(s) - i, Len(s) - i)) ELSE 0

\* the four digits of s that end 4 * c places before its last one
chunkVal(s, c) ==
    placeVal(s, 4 * c) + 10 * placeVal(s, 4 * c + 1) + 100 * placeVal(s, 4 * c + 2)
        + 1000 * placeVal(s, 4 * c + 3)

chunkAt(s, c) == BMul(Pow10(4 * c), FromInt(chunkVal(s, c)))

\* the value of a string of at most 20 decimal digits ("" is 0)
FromDecimal(s) ==
    BAdd(BAdd(chunkAt(s, 0), chunkAt(s, 1)),
         BAdd(BAdd(chunkAt(s, 2), chunkAt(s, 3)), chunkAt(s, 4)))

RECURSIVE ToDecimal(_)
decimalOf(d) ==
    ToDecimal(d.q) \o SubSeq("000", 1, 4 - Len(Itoa(d.r))) \o Itoa(d.r)

\* the decimal digits of a, four digits at a time
ToDecimal(a) == IF Len(a) <= 1 THEN Itoa(ToInt(a)) ELSE Then(BOver(a, 10000), decimalOf)

\* A float64 is written [num, exp]: it is the number num / 2^exp.  roundedUp
\* says whether m, the 53 highest binary digits of q, goes up for the d
\* digits below them: to nearest, to even on a tie; inexact says that q
\* stands for a little more than itself.
roundedUp(low, half, m, inexact) ==
    \/ BLess(half, low)
    \/ low = half /\ (inexact \/ m[1] % 2 = 1)

kept(q, d, m, inexact) ==
    Shl(IF roundedUp(BSub(q, Shl(m, d)), Shl(<<1>>, d - 1), m, inexact)
        THEN BAdd(m, <<1>>) ELSE m, d)

round53(q, inexact) ==
    IF BitLen(q) <= 53 THEN q
    ELSE kept(q, BitLen(q) - 53, Shr(q, BitLen(q) - 53), inexact)

RECURSIVE overPow10(_, _, _)
tenth(d, j, left) == overPow10(d.q, j, left \/ d.r # 0)

\* a \div 10^j, and whether anything is left over
overPow10(a, j, left) ==
    IF j = 0 THEN [q |-> a, left |-> left]
    ELSE IF j >= 4 THEN Then(BOver(a, 10000), LAMBDA d : tenth(d, j - 4, left))
    ELSE Then(BOver(a, 10^j), LAMBDA d : tenth(d, 0, left))

rounded(d, exp) == [num |-> round53(d.q, d.left), exp |-> exp]

\* binary digits to put under a so that a \div 10^j has 55 of them
shiftFor(a, j) ==
    IF 55 + BitLen(Pow10(j)) - BitLen(a) > 0 THEN 55 + BitLen(Pow10(j)) - BitLen(a) ELSE 0

\* the float64 nearest to a / (10^j * 2^s)
FDiv(a, j, s) ==
    IF a = <<>> THEN [num |-> <<>>, exp |-> 0]
    ELSE Then(overPow10(Shl(a, shiftFor(a, j)), j, FALSE),
              LAMBDA d : rounded(d, s + shiftFor(a, j)))

\* float64(n) of a whole number
Float(n) == FDiv(n, 0, 0)

\* x * y in float64
FMul(x, y) == Then(BMul(x.num, y.num), LAMBDA n : FDiv(n, 0, x.exp + y.exp))

\* x / 10^j in float64
FOverPow10(x, j) == FDiv(x.num, j, x.exp)

\* x < 1
BelowOne(x) == BitLen(x.num) <= x.exp

\* math.Round of x >= 0 as a whole number: halves go up
MathRound(x) == Shr(BAdd(Shl(x.num, 1), Shl(<<1>>, x.exp)), x.exp + 1)

\* q or q + 1, whichever is nearest to q + low / 2^exp, the even one on a tie
nearestEven(q, low, exp) ==
    IF /\ exp > 0
       /\ \/ BLess(Shl(<<1>>, exp - 1), low)
          \/ (low = Shl(<<1>>, exp - 1) /\ q # <<>> /\ q[1] % 2 = 1)
    THEN BAdd(q, <<1>>) ELSE q

nearestTo(n, q, exp) == nearestEven(q, BSub(n, Shl(q, exp)), exp)

\* n / 2^exp to the nearest whole number
NearestWhole(n, exp) == nearestTo(n, Shr(n, exp), exp)

\* n zeroes, for n up to 20
Zeros(n) == SubSeq("00000000000000000000", 1, n)

\* digits with a point before the last prec of them
pointed(digits, prec) ==
    IF prec = 0 THEN digits
    ELSE SubSeq(digits, 1, Len(digits) - prec) \o "."
             \o SubSeq(digits, Len(digits) - prec + 1, Len(digits))

padded(digits, prec) == pointed(Zeros(prec + 1 - Len(digits)) \o digits, prec)

\* strconv.FormatFloat(x, 'f', prec, 64) for x >= 0
FormatFloat(x, prec) ==
    Then(Then(BMul(x.num, Pow10(prec)), LAMBDA n : NearestWhole(n, x.exp)),
         LAMBDA w : padded(ToDecimal(w), prec))

----------------------------------------------------------------------------
(* Size strings, storage.go:156, 519-570, 937-1007.                        *)

IsDigit(c) == \E i \in 1..10 : SubSeq("0123456789", i, i) = c

AllDigits(s) == \A i \in 1..Len(s) : IsDigit(SubSeq(s, i, i))

\* c as a letter of to when it is a letter of from
Recase(c, from, to) ==
    IF \E i \in 1..26 : SubSeq(from, i, i) = c
    THEN LET i == CHOOSE j \in 1..26 : SubSeq(from, j, j) = c
         IN  SubSeq(to, i, i)
    ELSE c

RECURSIVE Recased(_, _, _)
\* every character of s through Recase, one half of s after the other
Recased(s, from, to) ==
    IF Len(s) <= 1 THEN Recase(s, from, to)
    ELSE Recased(SubSeq(s, 1, Len(s) \div 2), from, to)
             \o Recased(SubSeq(s, Len(s) \div 2 + 1, Len(s)), from, to)

\* strings.ToLower
ToLower(s) == Recased(s, "ABCDEFGHIJKLMNOPQRSTUVWXYZ", "abcdefghijklmnopqrstuvwxyz")

\* strings.ToUpper
ToUpper(s) == Recased(s, "abcdefghijklmnopqrstuvwxyz", "ABCDEFGHIJKLMNOPQRSTUVWXYZ")

\* strings.TrimRight(s, c) for a cutset of the one character c
TrimRight(s, c) ==
    SubSeq(s, 1, CHOOSE n \in 0..Len(s) :
                     /\ \A i \in (n + 1)..Len(s) : SubSeq(s, i, i) = c
                     /\ n > 0 => SubSeq(s, n, n) # c)

IsUnit(c) == \E i \in 1..6 : SubSeq("bkmgtp", i, i) = c

\* group 3 of storageExp on a matching string: the unit letter, or ""
UnitOf(s) ==
    IF s # "" /\ IsUnit(SubSeq(s, Len(s), Len(s))) THEN SubSeq(s, Len(s), Len(s)) ELSE ""

\* group 1 of storageExp on a matching string: the number
NumberOf(s) == SubSeq(s, 1, Len(s) - Len(UnitOf(s)))

\* the place of the decimal point in s, or 0
DotAt(s) ==
    IF \E i \in 1..Len(s) : SubSeq(s, i, i) = "."
    THEN CHOOSE i \in 1..Len(s) : SubSeq(s, i, i) = "." /\
             \A j \in 1..(i - 1) : SubSeq(s, j, j) # "."
    ELSE 0

IntPart(s) == IF DotAt(s) = 0 THEN s ELSE SubSeq(s, 1, DotAt(s) - 1)

FracPart(s) == IF DotAt(s) = 0 THEN "" ELSE SubSeq(s, DotAt(s) + 1, Len(s))

\* storageExp, storage.go:156: ^([0-9]*(\.)?[0-9]*)([bkmgtp]{1}){0,1}$
storageExpMatch(s) ==
    AllDigits(IntPart(NumberOf(s))) /\ AllDigits(FracPart(NumberOf(s)))

\* strconv.ParseFloat accepts the numbers storageExp lets through except
\* those without any digit
ParseFloatOk(num) == IntPart(num) # "" \/ FracPart(num) # ""

\* strconv.ParseFloat(num, 64): the float64 nearest to the decimal number
ParseFloat(num) ==
    Then(FromDecimal(IntPart(num) \o FracPart(num)), LAMBDA n : FDiv(n, Len(FracPart(num)), 0))

\* the place of a unit letter among b, k, m, g, t, p, from 0; 0 without one
UnitPower(unit) ==
    IF unit = "" THEN 0 ELSE (CHOOSE i \in 1..6 : SubSeq("bkmgtp", i, i) = unit) - 1

\* the binary scale of a unit letter, storage.go:952-965
BinaryScale(unit) == [num |-> Shl(<<1>>, 10 * UnitPower(unit)), exp |-> 0]

\* the decimal scale of a unit letter, storage.go:989-1002
DecimalScale(unit) == [num |-> Pow10(3 * UnitPower(unit)), exp |-> 0]

\* uint64(math.Round(fsize * scale)) for the number and the unit of s; the
\* product is rounded to a float64 before math.Round sees it
scaledSize(s, Scale(_)) ==
    Then(Then(ParseFloat(NumberOf(s)), LAMBDA fsize : FMul(fsize, Scale(UnitOf(s)))),
         MathRound)

\* the body the two parsers share, on the string in lower case: [v, err]
parsedSize(s, Scale(_)) ==
    IF ~storageExpMatch(s)
    THEN \* strconv.ParseUint(str, 0, 64) of a string that has a character
         \* storageExp rejects; a base prefix is not modelled
         [v |-> <<>>, err |-> "ParseUint: invalid syntax"]
    ELSE IF ~ParseFloatOk(NumberOf(s))
         THEN [v |-> <<>>, err |-> "ParseFloat: invalid syntax"]
         ELSE [v |-> scaledSize(s, Scale), err |-> ""]

\* ParseVolumeSize: [v, err]
ParseVolumeSize(str) == Then(ToLower(str), LAMBDA s : parsedSize(s, BinaryScale))

\* ParseVolumeHumanSize: [v, err]
ParseVolumeHumanSize(str) == Then(ToLower(str), LAMBDA s : parsedSize(s, DecimalScale))

\* the table of HumanReadableSizeWithUnitAndPrecision, storage.go:527-538;
\* a mask is written as the power of ten it is
sizes ==
    <<[unit |-> "P", mask |-> 15, precision |-> 5],
      [unit |-> "T", mask |-> 12, precision |-> 4],
      [unit |-> "G", mask |-> 9, precision |-> 3],
      [unit |-> "M", mask |-> 6, precision |-> 2],
      [unit |-> "K", mask |-> 3, precision |-> 1],
      [unit |-> "B", mask |-> 0, precision |-> 0]>>

\* the formatted number with its trailing zeroes and then a trailing point
\* cut off, followed by the unit unless it is B
formattedAs(csize, unit, precision) ==
    Then(FormatFloat(csize, precision),
         LAMBDA formatted : TrimRight(TrimRight(formatted, "0"), ".")
                                \o (IF unit # "B" THEN unit ELSE ""))

\* whether the loop gets past its two continue statements at the row curr,
\* storage.go:545-551
stopsAt(value, unit, curr) ==
    IF unit = "" THEN ~BelowOne(FOverPow10(value, curr.mask)) ELSE unit = curr.unit

\* what the loop returns from the row curr
formatRow(value, precision, curr) ==
    [v |-> formattedAs(FOverPow10(value, curr.mask), curr.unit,
                       IF precision < 0 THEN curr.precision ELSE precision),
     err |-> ""]

\* the loop over the table, storage.go:541-567: the first row it stops at
formatLoop(value, unit, precision) ==
    IF \A i \in 1..Len(sizes) : ~stopsAt(value, unit, sizes[i])
    THEN [v |-> "", err |-> "Could not format disk/partition size"]
    ELSE formatRow(value, precision,
                   sizes[CHOOSE i \in 1..Len(sizes) :
                             /\ stopsAt(value, unit, sizes[i])
                             /\ \A j \in 1..(i - 1) : ~stopsAt(value, unit, sizes[j])])

\* HumanReadableSizeWithUnitAndPrecision: [v, err]
HumanReadableSizeWithUnitAndPrecision(size, unit, precision) ==
    IF size = <<>> THEN [v |-> "0", err |-> ""]
    ELSE Then(Float(size), LAMBDA value : formatLoop(value, ToUpper(unit), precision))

----------------------------------------------------------------------------
(* JSON tokens and the lsblk descriptor, storage.go:799-879, 1011-1161.    *)

NullTok == [kind |-> "null", s |-> "", n |-> 0, b |-> FALSE]
StrTok(x) == [kind |-> "string", s |-> x, n |-> 0, b |-> FALSE]
NumTok(x) == [kind |-> "number", s |-> "", n |-> x, b |-> FALSE]
BoolTok(x) == [kind |-> "bool", s |-> "", n |-> 0, b |-> x]
\* the key is not in the object
NoTok == [kind |-> "absent", s |-> "", n |-> 0, b |-> FALSE]

\* getNextStrToken: [v, err]
getNextStrToken(t, name) ==
    CASE t.kind = "null" -> [v |-> "", err |-> ""]
      [] t.kind = "string" -> [v |-> t.s, err |-> ""]
      [] OTHER -> [v |-> "", err |-> "\"" \o name \o "\" token should have a string value"]

\* the size a parser returned as a value of the model's device sizes
parsedToken(r) == [v |-> ToInt(r.v), err |-> r.err]

\* getNextByteToken: [v, err]
getNextByteToken(t, name) ==
    CASE t.kind = "null" -> [v |-> 0, err |-> ""]
      [] t.kind = "number" -> [v |-> t.n, err |-> ""]
      [] t.kind = "string" -> parsedToken(ParseVolumeSize(t.s))
      [] OTHER -> [v |-> 0, err |-> ""]

\* getNextBoolToken: [v, err]
getNextBoolToken(t, name) ==
    CASE t.kind = "null" -> [v |-> FALSE, err |-> ""]
      [] t.kind = "bool" -> [v |-> t.b, err |-> ""]
      [] t.kind = "string" ->
            IF t.s = "1" THEN [v |-> TRUE, err |-> ""]
            ELSE IF t.s \in {"0", ""} THEN [v |-> FALSE, err |-> ""]
            ELSE [v |-> FALSE, err |-> "Unknown ro value: " \o t.s]
      [] OTHER -> [v |-> FALSE,
                   err |-> "\"" \o name
                                \o "\" token is neither a boolean nor a string value"]

\* parseBlockDeviceType: [v, err]
parseBlockDeviceType(bdt) ==
    IF \E k \in DOMAIN blockDeviceTypeMap : blockDeviceTypeMap[k] = bdt
    THEN [v |-> CHOOSE k \in DOMAIN blockDeviceTypeMap : blockDeviceTypeMap[k] = bdt,
          err |-> ""]
    ELSE [v |-> BlockDeviceTypeUnknown, err |-> "Unknown block device type: " \o bdt]

\* parseBlockDeviceState: [v, err]
parseBlockDeviceState(bds) ==
    IF \E k \in DOMAIN blockDeviceStateMap : blockDeviceStateMap[k] = bds
    THEN [v |-> CHOOSE k \in DOMAIN blockDeviceStateMap : blockDeviceStateMap[k] = bds,
          err |-> ""]
    ELSE [v |-> BlockDeviceStateUnknown,
          err |-> "Unrecognized block device state: " \o bds]

\* the first error of a sequence of errors, or ""
FirstErr(errs) ==
    IF \E i \in 1..Len(errs) : errs[i] # ""
    THEN errs[CHOOSE i \in 1..Len(errs) :
                  errs[i] # "" /\ \A j \in 1..(i - 1) : errs[j] = ""]
    ELSE ""

\* a present key gives the decoded value, an absent one leaves the field
Field(t, old, dec) == IF t.kind = "absent" THEN [v |-> old, err |-> ""] ELSE dec

\* the scalar keys of UnmarshalJSON, storage.go:1026-1150, on the object bd
decodeScalars(bd, d) ==
    LET name == Field(d.name, bd.Name, getNextStrToken(d.name, "name"))
        model == Field(d.model, bd.Model, getNextStrToken(d.model, "model"))
        majmin == Field(d.majmin, bd.MajorMinor, getNextStrToken(d.majmin, "maj:min"))
        size == Field(d.size, bd.Size, getNextByteToken(d.size, "size"))
        pttype == Field(d.pttype, bd.PtType, getNextStrToken(d.pttype, "pttype"))
        fstype == Field(d.fstype, bd.FsType, getNextStrToken(d.fstype, "fstype"))
        uuid == Field(d.uuid, bd.UUID, getNextStrToken(d.uuid, "uuid"))
        serial == Field(d.serial, bd.Serial, getNextStrToken(d.serial, "serial"))
        tps == getNextStrToken(d.type, "type")
        tp == Field(d.type, bd.Type,
                    IF tps.err # "" THEN [v |-> bd.Type, err |-> tps.err]
                    ELSE parseBlockDeviceType(tps.v))
        sts == getNextStrToken(d.state, "state")
        st == Field(d.state, bd.State,
                    IF sts.err # "" THEN [v |-> bd.State, err |-> sts.err]
                    ELSE parseBlockDeviceState(sts.v))
        mpoint == Field(d.mountpoint, bd.MountPoint,
                        getNextStrToken(d.mountpoint, "mountpoint"))
        label == Field(d.label, bd.Label, getNextStrToken(d.label, "label"))
        ro == Field(d.ro, bd.ReadOnly, getNextBoolToken(d.ro, "ro"))
        rm == Field(d.rm, bd.RemovableDevice, getNextBoolToken(d.rm, "rm"))
    IN  [bd |-> [bd EXCEPT !.Name = name.v, !.Model = model.v,
                           !.MajorMinor = majmin.v, !.Size = size.v,
                           !.PtType = pttype.v, !.FsType = fstype.v,
                           !.UUID = uuid.v, !.Serial = serial.v,
                           !.Type = tp.v, !.State = st.v,
                           !.MountPoint = mpoint.v, !.Label = label.v,
                           !.ReadOnly = ro.v, !.RemovableDevice = rm.v],
         err |-> FirstErr(<<name.err, model.err, majmin.err, size.err, pttype.err,
                            fstype.err, uuid.err, serial.err, tp.err, st.err,
                            mpoint.err, label.err, ro.err, rm.err>>)]

RECURSIVE UnmarshalJSON(_, _)
RECURSIVE decodeList(_, _)

\* the decoded elements one and rest put together
decodedCons(one, rest) ==
    [h |-> rest.h, ptrs |-> <<one.ptr>> \o rest.ptrs, err |-> rest.err]

\* decodeList once the first element is decoded as one
decodeRest(h, ds, one) ==
    IF one.err # "" THEN [h |-> h, ptrs |-> <<>>, err |-> one.err]
    ELSE decodedCons(one, decodeList(one.h, Tail(ds)))

\* json decoding of an array of descriptors into a []*BlockDevice: every
\* element is a new object. [h, ptrs, err]
decodeList(h, ds) ==
    IF ds = <<>> THEN [h |-> h, ptrs |-> <<>>, err |-> ""]
    ELSE decodeRest(h, ds, UnmarshalJSON(h, Head(ds)))

\* the children key, storage.go:1151-1156, once the array is decoded as ch
unmarshalChildren(h, p, bd, ch) ==
    IF ch.err # ""
    THEN [h |-> h, ptr |-> NilPtr, err |-> "Invalid \"children\" token: " \o ch.err]
    ELSE [h |-> Put(ch.h, p, [bd EXCEPT !.Children = MkSlice(ch.ptrs)]),
          ptr |-> p, err |-> ""]

\* UnmarshalJSON into the new object p once the scalar keys are decoded as sc
unmarshalObject(h, d, p, sc) ==
    IF sc.err # "" THEN [h |-> h, ptr |-> NilPtr, err |-> sc.err]
    ELSE IF ~d.children.present THEN [h |-> Put(h, p, sc.bd), ptr |-> p, err |-> ""]
    ELSE unmarshalChildren(h, p, sc.bd, decodeList(Put(h, p, sc.bd), d.children.list))

\* UnmarshalJSON of descriptor d into a new object. [h, ptr, err]
UnmarshalJSON(h, d) == unmarshalObject(h, d, NewPtr(h), decodeScalars(ZeroBD, d))

----------------------------------------------------------------------------
(* Decoding a device listing, storage.go:763-797.                          *)

\* a test that looks at the mount point alone
mountedOnly(ch) == ch.MountPoint # ""

\* what makes one child disqualify its root device, storage.go:778-787
childInUse(ch) == ch.MountPoint # "" \/ Contains(ch.Label, "CLR_ISO")

\* the index of the child the loop of storage.go:776-788 breaks at, or 0
breakAt(h, p) ==
    LET ch == kids(h, p)
    IN  IF \E i \in 1..Len(ch) : childInUse(h[ch[i]])
        THEN CHOOSE i \in 1..Len(ch) :
                 childInUse(h[ch[i]]) /\ \A j \in 1..(i - 1) : ~childInUse(h[ch[j]])
        ELSE 0

\* the children the loop of storage.go:776-788 gets to
visited(h, p) ==
    {kids(h, p)[i] : i \in 1..(IF breakAt(h, p) = 0 THEN Len(kids(h, p)) ELSE breakAt(h, p))}

\* the filesystem test of storage.go:790-793
isSquash(bd) == Contains(bd.FsType, "squashfs")

RECURSIVE setParents(_, _, _)
\* ch.Parent = bd (storage.go:777) for the children chs
setParents(h, chs, p) ==
    IF chs = {} THEN h
    ELSE LET c == CHOOSE x \in chs : TRUE
         IN  setParents(Put(h, c, [h[c] EXCEPT !.Parent = p]), chs \ {c}, p)

\* one turn of the loop of storage.go:773-794 on the root device p
markAvailable(h, p) ==
    Put(setParents(h, visited(h, p), p), p,
        [h[p] EXCEPT !.available = breakAt(h, p) = 0 /\ ~isSquash(h[p])])

RECURSIVE markAll(_, _)
markAll(h, ps) == IF ps = <<>> THEN h ELSE markAll(markAvailable(h, Head(ps)), Tail(ps))

\* storage.go:773-796 once json.Unmarshal has decoded the list as dl
parsedList(h, dl) ==
    IF dl.err # "" THEN [h |-> h, list |-> NilSlice, err |-> dl.err]
    ELSE [h |-> markAll(dl.h, dl.ptrs), list |-> MkSlice(dl.ptrs), err |-> ""]

\* parseBlockDevicesDescriptor: [h, list, err]. data is the text lsblk wrote:
\* valid JSON or not, with or without the blockdevices key.
parseBlockDevicesDescriptor(h, data) ==
    IF ~data.valid THEN [h |-> h, list |-> NilSlice, err |-> "invalid character"]
    ELSE IF ~data.blockdevices.present THEN [h |-> h, list |-> NilSlice, err |-> ""]
    ELSE parsedList(h, decodeList(h, data.blockdevices.list))

----------------------------------------------------------------------------
(* The discovery cycle, storage.go:629-679.                                *)

NoError == [isNil |-> TRUE, msg |-> ""]

Error(m) == [isNil |-> FALSE, msg |-> m]

\* a comparison by name alone
EqualsByName(h, bd, cmp) == cmp # NilPtr /\ h[bd].Name = h[cmp].Name

\* Equals, storage.go:755-761 (cmp may be nil)
Equals(h, bd, cmp) ==
    /\ cmp # NilPtr
    /\ h[bd].Name = h[cmp].Name
    /\ h[bd].Model = h[cmp].Model
    /\ h[bd].MajorMinor = h[cmp].MajorMinor

\* the array of a new partition table: the lowest one no device refers to
NewTable(h) ==
    LET used == {h[p].PartTable.arr : p \in DOMAIN h}
    IN  CHOOSE a \in 1..(Cardinality(used) + 1) :
            a \notin used /\ \A b \in 1..(a - 1) : b \in used

\* getPartitionTable: the rows the partition-table scan reports for a device
getPartitionTable(bd, scan) == [arr |-> 0, rows |-> scan]

\* setPartitionTable: attach the scanned rows to the device
setPartitionTable(h, p, tbl) ==
    Put(h, p, [h[p] EXCEPT !.PartTable = [arr |-> NewTable(h), rows |-> tbl.rows]])

RECURSIVE scanAll(_, _, _)
\* the loop of storage.go:649-653
scanAll(h, ps, scan) ==
    IF ps = <<>> THEN h
    ELSE scanAll(setPartitionTable(h, Head(ps), getPartitionTable(h[Head(ps)], scan)),
                 Tail(ps), scan)

\* the user-defined device that takes the place of loaded, or loaded itself,
\* storage.go:660-676
mergeOne(h, loaded, userDefined) ==
    IF \E i \in 1..Len(userDefined) : Equals(h, loaded, userDefined[i])
    THEN userDefined[CHOOSE i \in 1..Len(userDefined) :
                         /\ Equals(h, loaded, userDefined[i])
                         /\ \A j \in 1..(i - 1) : ~Equals(h, loaded, userDefined[j])]
    ELSE loaded

\* a cycle that goes on whatever the device-listing probe's exit status
lsblkNeverFailed(env) == FALSE

\* whether the cycle stops after the device-listing probe, storage.go:639-642
lsblkFailed(env) == ~env.lsblkOk

\* an external command the cycle ran: its exit status and, for lsblk, what
\* it wrote
Ran(cmd, ok, dev, out) == [cmd |-> cmd, ok |-> ok, dev |-> dev, out |-> out]

\* the commands of storage.go:632-639
probesRun(env) ==
    <<Ran("partprobe", env.partprobeOk, "", ""), Ran("lsblk", env.lsblkOk, "", env.output)>>

\* the partition-table scans of storage.go:649-653, one per device
scansRun(h, bds) == [i \in 1..Len(bds) |-> Ran("parted", TRUE, h[bds[i]].Name, "")]

\* storage.go:644-653 once parseBlockDevicesDescriptor has returned dec
discovered(h, env, dec) ==
    IF dec.err # ""
    THEN [h |-> h, list |-> NilSlice, err |-> Error(dec.err), probes |-> probesRun(env)]
    ELSE [h |-> scanAll(dec.h, dec.list.elems, env.scan), list |-> dec.list,
          err |-> NoError, probes |-> probesRun(env) \o scansRun(dec.h, dec.list.elems)]

\* storage.go:630-653, the part of listBlockDevices that does not look at
\* userDefined: [h, list, err, probes]. env is what the external tools do in
\* this cycle.
discover(h, env) ==
    IF lsblkFailed(env)
    THEN [h |-> h, list |-> NilSlice, err |-> Error(env.output), probes |-> probesRun(env)]
    ELSE discovered(h, env, parseBlockDevicesDescriptor(h, env.data))

\* storage.go:655-678 on what discover found: [h, list, err, probes, loaded],
\* loaded being the local bds
mergeUserDefined(d, userDefined) ==
    IF ~d.err.isNil
    THEN [h |-> d.h, list |-> NilSlice, err |-> d.err, probes |-> d.probes,
          loaded |-> <<>>]
    ELSE IF Len(userDefined) = 0
    THEN [h |-> d.h, list |-> d.list, err |-> NoError, probes |-> d.probes,
          loaded |-> d.list.elems]
    ELSE [h |-> d.h,
          list |-> MkSlice([i \in 1..Len(d.list.elems) |->
                               mergeOne(d.h, d.list.elems[i], userDefined)]),
          err |-> NoError, probes |-> d.probes, loaded |-> d.list.elems]

\* listBlockDevices
listBlockDevices(h, userDefined, env) == mergeUserDefined(discover(h, env), userDefined)

\* a filter that lets every device through
AlwaysAvailable(bd) == TRUE

\* IsAvailable, storage.go:360-362
IsAvailable(bd) == bd.available

RECURSIVE availableOnly(_, _)
\* the loop of storage.go:735-742
availableOnly(h, ps) ==
    IF ps = <<>> THEN <<>>
    ELSE (IF IsAvailable(h[Head(ps)]) THEN <<Head(ps)>> ELSE <<>>)
             \o availableOnly(h, Tail(ps))

\* a test that takes an empty cached list for no cache
cacheHitNonEmpty(cache) == ~cache.isNil /\ cache.elems # <<>>

\* the test of storage.go:726
cacheHit(cache) == ~cache.isNil

\* ListAvailableBlockDevices once listBlockDevices has returned r (which the
\* code does not call on a cache hit): [h, cache, list, err, probes, loaded,
\* merged], merged being the local bds
listAvailable(h, cache, r) ==
    LET result == MkSlice(availableOnly(r.h, r.list.elems))
    IN  IF cacheHit(cache)
        THEN [h |-> h, cache |-> cache, list |-> cache, err |-> NoError,
              probes |-> <<>>, loaded |-> <<>>, merged |-> <<>>]
        ELSE IF ~r.err.isNil
        THEN [h |-> r.h, cache |-> cache, list |-> NilSlice, err |-> r.err,
              probes |-> r.probes, loaded |-> r.loaded, merged |-> <<>>]
        ELSE [h |-> r.h, cache |-> result, list |-> result, err |-> NoError,
              probes |-> r.probes, loaded |-> r.loaded, merged |-> r.list.elems]

\* a rescan that keeps the cache
notInvalidated(cache) == cache

\* the cache as RescanBlockDevices hands it to ListAvailableBlockDevices,
\* storage.go:717
invalidated(cache) == NilSlice

RECURSIVE updateBlockDevices(_, _, _)
RECURSIVE updateChildren(_, _, _)

\* the loop of storage.go:708-710
updateChildren(h, children, updates) ==
    IF children = <<>> THEN h
    ELSE updateChildren(updateBlockDevices(h, Head(children), updates),
                        Tail(children), updates)

\* updateBlockDevices, storage.go:699-713: the heap afterwards
updateBlockDevices(h, toBeUpdated, updates) ==
    IF updates = <<>> THEN h
    ELSE LET update == Head(updates)
         IN  IF h[toBeUpdated].Name # h[update].Name
             THEN updateBlockDevices(h, toBeUpdated, Tail(updates))
             ELSE IF h[toBeUpdated].Children.isNil
             THEN Put(h, toBeUpdated, [h[toBeUpdated] EXCEPT !.Label = h[update].Label,
                                                            !.UUID = h[update].UUID])
             ELSE updateBlockDevices(
                      updateChildren(h, kids(h, toBeUpdated), kids(h, update)),
                      toBeUpdated, Tail(updates))

RECURSIVE updateAll(_, _, _)
\* the loop of storage.go:692-694
updateAll(h, medias, bds) ==
    IF medias = <<>> THEN h
    ELSE updateAll(updateBlockDevices(h, Head(medias), bds), Tail(medias), bds)

\* storage.go:686-696 once listBlockDevices(nil) has returned r, on the heap
\* h of before the call: [h, err, probes]
updated(h, medias, r) ==
    IF ~r.err.isNil THEN [h |-> h, err |-> r.err, probes |-> r.probes]
    ELSE [h |-> updateAll(r.h, medias, r.list.elems), err |-> NoError,
          probes |-> r.probes]

----------------------------------------------------------------------------
(* The operations on a device tree, storage.go:221-223, 315-351, 465-515.  *)

\* SetPartitionNumber, storage.go:221-223
SetPartitionNumber(h, bd, partition) == Put(h, bd, [h[bd] EXCEPT !.partition = partition])

\* the fields the composite literal of storage.go:316-339 names; the others
\* keep their zero value
cloneFields(bd) ==
    [ZeroBD EXCEPT !.Name = bd.Name, !.MappedName = bd.MappedName,
                   !.Model = bd.Model, !.MajorMinor = bd.MajorMinor,
                   !.FsType = bd.FsType, !.UUID = bd.UUID, !.Serial = bd.Serial,
                   !.MountPoint = bd.MountPoint, !.Label = bd.Label,
                   !.Size = bd.Size, !.Type = bd.Type, !.State = bd.State,
                   !.ReadOnly = bd.ReadOnly,
                   !.RemovableDevice = bd.RemovableDevice,
                   !.Parent = bd.Parent, !.UserDefined = bd.UserDefined,
                   !.MakePartition = bd.MakePartition,
                   !.FormatPartition = bd.FormatPartition,
                   !.available = bd.available, !.partition = bd.partition,
                   !.PartTable = bd.PartTable, !.removedParts = bd.removedParts]

\* a cloned child left with the parent its original has
keepParent(clone, parent) == parent

\* the parent a cloned child gets, storage.go:345; parent is the one
\* curr.Clone() copied from curr
clonedChildParent(clone, parent) == clone

RECURSIVE Clone(_, _)
RECURSIVE cloneChildren(_, _, _)

\* the loop of storage.go:343-348 over the children chs still to clone
cloneChildren(h, clone, chs) ==
    IF chs = <<>> THEN [h |-> h, ptr |-> clone]
    ELSE LET cc == Clone(h, Head(chs))
             h1 == Put(cc.h, cc.ptr,
                       [cc.h[cc.ptr] EXCEPT !.Parent = clonedChildParent(clone, @)])
             h2 == Put(h1, clone, [h1[clone] EXCEPT !.Children = AppendSlice(@, cc.ptr)])
         IN  cloneChildren(h2, clone, Tail(chs))

\* Clone, storage.go:315-351: [h, ptr]
Clone(h, bd) ==
    LET clone == NewPtr(h)
    IN  cloneChildren(Put(h, clone, [cloneFields(h[bd]) EXCEPT !.Children = MkSlice(<<>>)]),
                      clone, kids(h, bd))

\* a base name without the "p" of loop, nvme and mmcblk devices
baseNameOnly(bd) == bd.Name

\* getBasePartitionName, storage.go:486-496
getBasePartitionName(bd) ==
    bd.Name \o (IF \/ bd.Type = BlockDeviceTypeLoop
                   \/ Contains(bd.Name, "nvme")
                   \/ Contains(bd.Name, "mmcblk")
                THEN "p" ELSE "")

\* AddChild, storage.go:499-515
AddChild(h, bd, child) ==
    LET h1 == Put(h, child, [h[child] EXCEPT !.Parent = bd])
        h2 == Put(h1, bd, [h1[bd] EXCEPT !.Children =
                              AppendSlice(IF @.isNil THEN MkSlice(<<>>) ELSE @, child)])
        name == IF h2[child].Name # "" THEN h2[child].Name
                ELSE IF h2[child].partition < 1
                THEN getBasePartitionName(h2[bd]) \o "?"
                ELSE getBasePartitionName(h2[bd]) \o Itoa(h2[child].partition)
    IN  Put(h2, child, [h2[child] EXCEPT !.Name = name])

RECURSIVE removeLoop(_, _, _, _)
\* the loop of storage.go:470-478 over the cloned children currs
removeLoop(h, bd, child, currs) ==
    IF currs = <<>> THEN h
    ELSE LET curr == Head(currs)
         IN  IF h[curr].Name = h[child].Name
             THEN removeLoop(Put(h, child, [h[child] EXCEPT !.Parent = NilPtr]),
                             bd, child, Tail(currs))
             ELSE removeLoop(AddChild(Put(h, curr, [h[curr] EXCEPT !.Name = ""]), bd, curr),
                             bd, child, Tail(currs))

\* storage.go:468-478 once bd.Clone() has returned copyBd
removeFrom(bd, child, copyBd) ==
    removeLoop(Put(copyBd.h, bd, [copyBd.h[bd] EXCEPT !.Children = NilSlice]),
               bd, child, kids(copyBd.h, copyBd.ptr))

\* RemoveChild, storage.go:465-479
RemoveChild(h, bd, child) == removeFrom(bd, child, Clone(h, bd))

\* the array append allocates for a removedParts list: the lowest one no
\* device refers to
NewParts(h) ==
    LET used == {h[p].removedParts.arr : p \in DOMAIN h}
    IN  CHOOSE a \in 1..(Cardinality(used) + 1) :
            a \notin used /\ \A b \in 1..(a - 1) : b \in used

\* addRemovePartition, storage.go:482-484. A list of up to two entries has
\* no spare capacity, so append moves it to a new array.
addRemovePartition(h, bd, part) ==
    Put(h, bd, [h[bd] EXCEPT !.removedParts =
                   [arr |-> NewParts(h), elems |-> Append(@.elems, part)]])

----------------------------------------------------------------------------
(* Layout checks and the standard layout, storage.go:284-312, 422-462,     *)
(* 592-603, 1360-1408, 1425-1454.                                          *)

\* A uint64 is written as the integer of least magnitude that is congruent
\* to it modulo 2^64: -1 stands for 2^64 - 1. Sums and differences are then
\* the integer ones; the order is the unsigned one.
Less64(a, b) == IF (a < 0) = (b < 0) THEN a < b ELSE b < 0

\* the comparison the other way round
FsTypeIsSwap(bd) == bd.FsType = "swap"

\* FsTypeNotSwap, storage.go:405-407
FsTypeNotSwap(bd) == bd.FsType # "swap"

RECURSIVE validateChildren(_, _, _, _)
\* the loop of storage.go:427-447 over the children chs of bd, st holding
\* bootPartition, rootPartition, encrypted and the error it returns with
validateChildren(h, bd, chs, st) ==
    IF chs = <<>> THEN st
    ELSE LET ch == h[Head(chs)]
             isBoot == ch.FsType = "vfat" /\ ch.MountPoint = "/boot"
         IN  IF isBoot /\ ch.Type = BlockDeviceTypeCrypt
             THEN [st EXCEPT !.err = Error("Encryption of /boot is not supported")]
             ELSE IF bd.Type # BlockDeviceTypeDisk /\ bd.Size = 0 /\ ch.Size = 0
             THEN [st EXCEPT !.err =
                      Error("Both image size and partition size cannot be 0")]
             ELSE validateChildren(h, bd, Tail(chs),
                      [bootPartition |-> st.bootPartition \/ isBoot,
                       rootPartition |-> st.rootPartition \/ ch.MountPoint = "/",
                       encrypted |-> \/ st.encrypted
                                     \/ ch.Type = BlockDeviceTypeCrypt /\ FsTypeNotSwap(ch),
                       err |-> NoError])

\* a check for an EFI partition that does not ask for the firmware
validatedEfiAlways(st, legacyBios, cryptPass) ==
    IF ~st.err.isNil THEN st.err
    ELSE IF ~st.bootPartition THEN Error("Could not find a suitable EFI partition")
    ELSE IF ~st.rootPartition THEN Error("Could not find a root partition")
    ELSE IF st.encrypted /\ cryptPass = ""
    THEN Error("Encrypted file system enabled, but missing passphase")
    ELSE NoError

\* storage.go:445-461 once the loop has left st
validated(st, legacyBios, cryptPass) ==
    IF ~st.err.isNil THEN st.err
    ELSE IF ~st.bootPartition /\ ~legacyBios
    THEN Error("Could not find a suitable EFI partition")
    ELSE IF ~st.rootPartition THEN Error("Could not find a root partition")
    ELSE IF st.encrypted /\ cryptPass = ""
    THEN Error("Encrypted file system enabled, but missing passphase")
    ELSE NoError

\* Validate, storage.go:422-462: the error
Validate(h, bd, legacyBios, cryptPass) ==
    validated(validateChildren(h, h[bd], kids(h, bd),
                               [bootPartition |-> FALSE, rootPartition |-> FALSE,
                                encrypted |-> FALSE, err |-> NoError]),
              legacyBios, cryptPass)

RECURSIVE totalSize(_, _)
\* the loop of storage.go:597-600
totalSize(h, chs) ==
    IF chs = <<>> THEN 0 ELSE h[Head(chs)].Size + totalSize(h, Tail(chs))

\* FreeSpace, storage.go:592-603: [v, err]
FreeSpace(h, bd) ==
    IF h[bd].Type \notin {BlockDeviceTypeDisk, BlockDeviceTypeLoop}
    THEN [v |-> 0,
          err |-> Error("FreeSpace() must only be called with a disk block device")]
    ELSE [v |-> h[bd].Size - totalSize(h, kids(h, bd)), err |-> NoError]

RECURSIVE DiskSize(_, _)
RECURSIVE sumChildren(_, _, _)

\* storage.go:1434-1436 once ch.DiskSize() has returned size
sizeAdded(h, chs, childSize, size) ==
    IF ~size.err.isNil THEN [v |-> 0, err |-> size.err]
    ELSE sumChildren(h, chs, childSize + size.v)

\* the loop of storage.go:1431-1441: [v, err]
sumChildren(h, chs, childSize) ==
    IF chs = <<>> THEN [v |-> childSize, err |-> NoError]
    ELSE IF Len(kids(h, Head(chs))) > 0
    THEN sizeAdded(h, Tail(chs), childSize, DiskSize(h, Head(chs)))
    ELSE sumChildren(h, Tail(chs), childSize + h[Head(chs)].Size)

\* a result that trusts the declared size without looking at the sum
diskSizeUnchecked(bd, sum) ==
    IF ~sum.err.isNil THEN sum
    ELSE IF bd.Size # 0 THEN [v |-> bd.Size, err |-> NoError]
    ELSE sum

\* storage.go:1443-1453 once the loop has left sum
diskSizeOf(bd, sum) ==
    IF ~sum.err.isNil THEN sum
    ELSE IF bd.Size # 0 /\ Less64(bd.Size, sum.v)
    THEN [v |-> 0,
          err |-> Error(bd.Name \o ": Partition Sizes %d larger than Device Size: %d")]
    ELSE IF bd.Size # 0 THEN [v |-> bd.Size, err |-> NoError]
    ELSE sum

\* DiskSize, storage.go:1425-1454: [v, err]
DiskSize(h, bd) == diskSizeOf(h[bd], sumChildren(h, kids(h, bd), 0))

\* a row of a partition table that is free space
FreeRow(start, end) ==
    [Number |-> 0, Start |-> start, End |-> end, Size |-> end - start,
     FileSystem |-> "free", Name |-> "", Flags |-> ""]

\* a *PartedPartition: nil, or the row part; live is the place in the
\* device's table of the row the pointer refers to, 0 for an object of its
\* own.  NoRow is what findFree returns when nothing fits.
NoRow == [isNil |-> TRUE, part |-> FreeRow(0, 0), live |-> 0]

\* PartedPartition.Clone, storage.go:297-311: a new object with the fields
\* of part
PartedClone(part) ==
    [isNil |-> FALSE,
     part |-> [Number |-> part.Number, Start |-> part.Start, End |-> part.End,
               Size |-> part.Size, FileSystem |-> part.FileSystem,
               Name |-> part.Name, Flags |-> part.Flags],
     live |-> 0]

\* the places of the rows of rows that findFree(size) takes, storage.go:288-289
fits(rows, size) ==
    {i \in 1..Len(rows) : /\ rows[i].Number = 0
                          /\ rows[i].FileSystem = "free"
                          /\ ~Less64(rows[i].Size, size)}

\* findFree were it to take the smallest row that fits
findFreeBestFit(h, bd, size) ==
    LET rows == h[bd].PartTable.rows
    IN  IF fits(rows, size) = {} THEN NoRow
        ELSE PartedClone(rows[CHOOSE i \in fits(rows, size) :
                                  \A j \in fits(rows, size) :
                                      ~Less64(rows[j].Size, rows[i].Size)])

\* findFree, storage.go:284-297: a copy of the first row that fits, or nil
findFree(h, bd, size) ==
    LET rows == h[bd].PartTable.rows
    IN  IF fits(rows, size) = {} THEN NoRow
        ELSE PartedClone(rows[CHOOSE i \in fits(rows, size) :
                                  \A j \in fits(rows, size) : i <= j])

\* AddFromFreePartition: without a free region the child is left out;
\* otherwise the child is attached and the region it was cut from shrinks
AddFromFreePartition(h, bd, freePart, child) ==
    IF freePart.isNil THEN h
    ELSE LET h1 == AddChild(h, bd, child)
         IN  Put(h1, bd, [h1[bd] EXCEPT !.PartTable.rows =
                 [i \in DOMAIN @ |->
                     IF @[i].Number = 0 /\ @[i].Start = freePart.part.Start
                     THEN [@[i] EXCEPT !.Start = @ + h[child].Size,
                                       !.Size = @ - h[child].Size]
                     ELSE @[i]]])

\* storage.go:182-183
bootSize == 150 * (1000 * 1000)
swapSize == 256 * (1000 * 1000)

\* rootSize, storage.go:1373
rootSize(disk) == disk.Size - bootSize - swapSize

\* the partition literals of storage.go:1376-1407
standardPartition(size, fstype, mountpoint, label) ==
    [ZeroBD EXCEPT !.Size = size, !.Type = BlockDeviceTypePart, !.FsType = fstype,
                   !.MountPoint = mountpoint, !.Label = label, !.UserDefined = TRUE,
                   !.MakePartition = TRUE, !.FormatPartition = TRUE]

\* freePart := disk.findFree(bd.Size); disk.AddFromFreePartition(freePart, &bd)
addStandard(h, disk, child, bd) ==
    AddFromFreePartition(Put(h, child, bd), disk, findFree(h, disk, bd.Size), child)

\* storage.go:1375-1407 once the children and the table are reset and
\* the root size is computed
standardAdded(h, disk, root) ==
    LET h1 == addStandard(h, disk, NewPtr(h),
                          standardPartition(bootSize, "vfat", "/boot", "boot"))
        h2 == addStandard(h1, disk, NewPtr(h1),
                          standardPartition(swapSize, "swap", "", "swap"))
    IN  addStandard(h2, disk, NewPtr(h2), standardPartition(root, "ext4", "/", "root"))

\* NewStandardPartitions, storage.go:1360-1408
NewStandardPartitions(h, disk) ==
    standardAdded(
        Put(h, disk, [h[disk] EXCEPT
                !.Children = NilSlice,
                !.PartTable = [arr |-> NewTable(h),
                               rows |-> <<FreeRow(0, h[disk].Size)>>]]),
        disk, rootSize(h[disk]))

----------------------------------------------------------------------------
(* What lsblk and parted report: the inputs of the model.                  *)

Absent == [present |-> FALSE, list |-> <<>>]

List(ds) == [present |-> TRUE, list |-> ds]

\* one object of lsblk -J -b -O output, the keys UnmarshalJSON reads; a
\* partition has 500 bytes, any other device 1000
Desc(name, model, majmin, type, fstype, mountpoint, label, uuid, children) ==
    [name |-> StrTok(name), model |-> model, majmin |-> StrTok(majmin),
     size |-> NumTok(IF type = "part" THEN 500 ELSE 1000), pttype |-> IF type = "disk" THEN StrTok("gpt") ELSE NullTok,
     fstype |-> fstype, uuid |-> uuid, serial |-> NullTok,
     type |-> StrTok(type), state |-> IF type = "disk" THEN StrTok("running") ELSE NullTok,
     mountpoint |-> mountpoint, label |-> label,
     ro |-> BoolTok(FALSE), rm |-> StrTok("0"), children |-> children]

Part(name, majmin, fstype, mountpoint, label, uuid) ==
    Desc(name, NullTok, majmin, "part", fstype, mountpoint, label, uuid, Absent)

\* sda with one unused partition
sdaFree ==
    Desc("sda", StrTok("X"), "8:0", "disk", NullTok, NullTok, NullTok, NullTok,
         List(<<Part("sda1", "8:1", StrTok("ext4"), NullTok, StrTok("data"), StrTok("u1"))>>))

\* sda with its partition mounted
sdaUsed ==
    Desc("sda", StrTok("X"), "8:0", "disk", NullTok, NullTok, NullTok, NullTok,
         List(<<Part("sda1", "8:1", StrTok("ext4"), StrTok("/"), StrTok("data"), StrTok("u1"))>>))

\* another disk that took the name sda
sdaOther ==
    Desc("sda", StrTok("Z"), "8:0", "disk", NullTok, NullTok, NullTok, NullTok, Absent)

\* sdb without partitions
sdbFree ==
    Desc("sdb", StrTok("Y"), "8:16", "disk", NullTok, NullTok, NullTok, NullTok, Absent)

\* sdb holding the installer image
sdbIso ==
    Desc("sdb", StrTok("Y"), "8:16", "disk", StrTok("iso9660"), NullTok,
         StrTok("CLR_ISO_1"), NullTok,
         List(<<Part("sdb1", "8:17", StrTok("iso9660"), NullTok, StrTok("CLR_ISO_1"),
                     StrTok("u3"))>>))

\* a device of a type blockDeviceTypeMap does not know
sdcOdd ==
    Desc("sdc", NullTok, "8:32", "raid1", NullTok, NullTok, NullTok, NullTok, Absent)

Json(ds) == [valid |-> TRUE, blockdevices |-> List(ds)]

\* the lsblk outputs of the discovery specification
Listings ==
    {Json(<<>>), Json(<<sdaFree>>), Json(<<sdaUsed>>), Json(<<sdaFree, sdbIso>>),
     Json(<<sdbFree, sdaUsed>>), Json(<<sdaOther, sdbFree>>), Json(<<sdbIso>>),
     Json(<<sdaFree, sdcOdd>>),
     [valid |-> FALSE, blockdevices |-> Absent]}

\* what the partition-table scan reports
Scans == {<<FreeRow(0, 1000)>>}

\* what the external tools do in one discovery cycle that reads one of datas
EnvsOf(datas) ==
    [partprobeOk : BOOLEAN, lsblkOk : {TRUE}, output : {"{...}"}, data : datas,
     scan : Scans]
    \cup
    [partprobeOk : BOOLEAN, lsblkOk : {FALSE}, output : {"lsblk: failed"},
     data : {Json(<<>>)}, scan : Scans]

\* the sequences over S of length n without repetition
RECURSIVE Arrangements(_, _)
Arrangements(S, n) ==
    IF n = 0 THEN {<<>>}
    ELSE {Append(a, x) : a \in Arrangements(S, n - 1), x \in S} \cap
         {a \in UNION {[1..n -> S]} : \A i, j \in 1..n : i # j => a[i] # a[j]}

\* the lists of at most n different devices among S
DeviceLists(S, n) == UNION {Arrangements(S, k) : k \in 0..n}

----------------------------------------------------------------------------
(* The discovery specification: calls of the exported operations.          *)

\* a device as UnmarshalYAML leaves it, storage.go:1188-1258: the user's
\* sda, to be mounted at /
cfgSda ==
    [ZeroBD EXCEPT !.Name = "sda", !.Model = "X", !.MajorMinor = "8:0",
                   !.MountPoint = "/", !.Size = 1000]

\* the devices the configuration file defines stay referenced for good
ConfigPtrs == {1}

NoCall ==
    [op |-> "", userDefined |-> <<>>, list |-> NilSlice, err |-> NoError,
     loaded |-> <<>>, merged |-> <<>>]

NoInput == [valid |-> FALSE, blockdevices |-> Absent]

\* the caller of the tree operations holds nothing yet
NoHeld == [list |-> <<>>, orig |-> NilPtr, clone |-> NilPtr, child |-> NilPtr, calls |-> 0]

Init ==
    /\ heap = (1 :> cfgSda)
    /\ avBlockDevices = NilSlice
    /\ ret = NoCall
    /\ probes = <<>>
    /\ input = NoInput
    /\ held = NoHeld

\* what the caller and the package still refer to after a call
Roots(cache, r) ==
    <<1>> \o cache.elems \o r.list.elems \o r.loaded \o r.userDefined \o r.merged

\* the devices a caller can hand in: the configured ones and those of the
\* list it was last given
Candidates == ConfigPtrs \cup Range(ret.list.elems)

\* the record of a call; its arguments and the devices lsblk listed are
\* kept in it only where a property reads them (keep)
Returned(op, userDefined, r, keep) ==
    [op |-> op, userDefined |-> IF keep THEN userDefined ELSE <<>>,
     list |-> r.list, err |-> r.err,
     loaded |-> IF keep THEN r.loaded ELSE <<>>, merged |-> r.merged]

\* the state after a call that returned out, the cache being cache, once the
\* heap is compacted as c
finished(out, cache, c) ==
    /\ ret' = [out EXCEPT !.userDefined = MapSeq(c.ren, @),
                          !.list.elems = MapSeq(c.ren, @),
                          !.loaded = MapSeq(c.ren, @),
                          !.merged = MapSeq(c.ren, @)]
    /\ avBlockDevices' = [cache EXCEPT !.elems = MapSeq(c.ren, @)]
    /\ heap' = c.h
    /\ UNCHANGED <<input, held>>

\* the effect of a call that went as r says
Finish(op, userDefined, r, cache, keep) ==
    /\ probes' = r.probes
    /\ finished(Returned(op, userDefined, r, keep), cache,
                Compact(r.h, Roots(cache, Returned(op, userDefined, r, keep))))

\* the effect of a call that went as r says and left the cache as r says
FinishCached(op, userDefined, r, keep) == Finish(op, userDefined, r, r.cache, keep)

\* the result of listBlockDevices as a caller of ListBlockDevices sees it
listed(r) == r @@ [merged |-> <<>>]

CallListBlockDevices(datas, n, keep) ==
    \E env \in EnvsOf(datas) :
        LET d == discover(heap, env)
        IN  \E userDefined \in DeviceLists(Candidates, n) :
                Finish("ListBlockDevices", userDefined,
                       listed(mergeUserDefined(d, userDefined)), avBlockDevices, keep)

CallListAvailableBlockDevices(datas, n, keep) ==
    IF cacheHit(avBlockDevices)
    THEN \E userDefined \in DeviceLists(Candidates, n) :
            Finish("ListAvailableBlockDevices", userDefined,
                   listAvailable(heap, avBlockDevices, NoCall), avBlockDevices, keep)
    ELSE \E env \in EnvsOf(datas) :
            LET d == discover(heap, env)
            IN  \E userDefined \in DeviceLists(Candidates, n) :
                    FinishCached("ListAvailableBlockDevices", userDefined,
                                 listAvailable(heap, avBlockDevices,
                                               mergeUserDefined(d, userDefined)),
                                 keep)

CallRescanBlockDevices(datas, n, keep) ==
    \E env \in EnvsOf(datas) :
        LET d == discover(heap, env)
        IN  \E userDefined \in DeviceLists(Candidates, n) :
                FinishCached("RescanBlockDevices", userDefined,
                             listAvailable(heap, invalidated(avBlockDevices),
                                           mergeUserDefined(d, userDefined)),
                             keep)

\* UpdateBlockDevices returns an error only: the caller keeps the list it had
afterUpdate(u, list) ==
    [h |-> u.h, list |-> list, err |-> u.err, probes |-> u.probes,
     loaded |-> <<>>, merged |-> <<>>]

CallUpdateBlockDevices(datas, n, keep) ==
    \E env \in EnvsOf(datas) :
        LET r == listBlockDevices(heap, <<>>, env)
        IN  \E medias \in DeviceLists(Candidates, n) :
                Finish("UpdateBlockDevices", medias,
                       afterUpdate(updated(heap, medias, r), ret.list),
                       avBlockDevices, keep)

\* the lsblk outputs of the discovery specification
CacheListings ==
    {Json(<<>>), Json(<<sdaFree>>),
     Json(<<sdbFree, sdaUsed>>), [valid |-> FALSE, blockdevices |-> Absent]}

Next ==
    \/ CallListBlockDevices(CacheListings, MaxUserDefined, FALSE)
    \/ CallListAvailableBlockDevices(CacheListings, MaxUserDefined, FALSE)
    \/ CallRescanBlockDevices(CacheListings, MaxUserDefined, FALSE)
    \/ CallUpdateBlockDevices(CacheListings, MaxUserDefined, FALSE)

Spec == Init /\ [][Next]_vars

\* the merge specification: ListBlockDevices alone, on every listing, its
\* arguments kept for the properties to read
NextMerge == CallListBlockDevices(Listings, MaxUserDefined, TRUE)

SpecMerge == Init /\ [][NextMerge]_vars

\* the filter specification: the two operations that filter by availability,
\* their arguments and the merged list kept for the properties to read
NextAvail ==
    \/ CallListAvailableBlockDevices(CacheListings, MaxUserDefined, TRUE)
    \/ CallRescanBlockDevices(CacheListings, MaxUserDefined, TRUE)

SpecAvail == Init /\ [][NextAvail]_vars

----------------------------------------------------------------------------
(* The tree specification: a caller lists the devices once and then works  *)
(* on the trees it was given.                                              *)

\* sda with a mounted partition followed by an unused one
sdaTwo ==
    Desc("sda", StrTok("X"), "8:0", "disk", NullTok, NullTok, NullTok, NullTok,
         List(<<Part("sda1", "8:1", StrTok("ext4"), StrTok("/"), StrTok("root"), StrTok("u1")),
                Part("sda2", "8:2", StrTok("ext4"), NullTok, StrTok("data"), StrTok("u2"))>>))

\* sda with one unused partition that has a partition of its own
sdaDeep ==
    Desc("sda", StrTok("X"), "8:0", "disk", NullTok, NullTok, NullTok, NullTok,
         List(<<Desc("sda1", NullTok, "8:1", "part", NullTok, NullTok, StrTok("lvm"),
                     StrTok("u1"),
                     List(<<Part("sda1p1", "259:1", StrTok("ext4"), NullTok,
                                 StrTok("home"), StrTok("u3"))>>))>>))

\* a device without partitions, of the given name and lsblk type
bare(name, type) ==
    Desc(name, NullTok, "259:0", type, NullTok, NullTok, NullTok, NullTok, Absent)

TreeListings ==
    {Json(<<sdaTwo>>), Json(<<sdaDeep>>), Json(<<bare("nvme0n1", "disk")>>),
     Json(<<bare("mmcblk0", "disk")>>), Json(<<bare("loop0", "loop")>>)}

\* what a tree operation records of its call: the operation, the tree the
\* devices it was given belong to, the receiver, the argument, the name the
\* argument had and the children the receiver had when the call was made
TreeRet(op, target, bd, child, childName, before) ==
    [op |-> op, target |-> target, bd |-> bd, child |-> child,
     childName |-> childName, before |-> before]

\* the devices of the trees the caller was given by ListBlockDevices
ListNodes(h, hd) == UNION {Subtree(h, hd.list[i]) : i \in 1..Len(hd.list)}

\* the devices of the clone the caller holds
CloneNodes(h, hd) == IF hd.clone = NilPtr THEN {} ELSE Subtree(h, hd.clone)

\* the devices that have children added and removed: the disks listed and
\* the clone
Receivers == Range(held.list) \cup ({held.clone} \ {NilPtr})

\* which tree a call works on: the clone when the receiver is one of its
\* devices and the argument, if any, is no device of the listed trees
Side(bd, child) ==
    IF bd \in CloneNodes(heap, held) /\ child \notin ListNodes(heap, held)
    THEN "clone" ELSE "original"

\* child is an element of some device's Children
Attached(h, child) == \E p \in DOMAIN h : child \in Range(kids(h, p))

\* the state after a tree operation, the caller holding hd, once the heap is
\* compacted as c: at most MaxTreeNodes devices are kept, in at most MaxCalls
\* steps
treeFinished(hd, r, c) ==
    /\ Cardinality(DOMAIN c.h) <= MaxTreeNodes
    /\ hd.calls < MaxCalls
    /\ heap' = c.h
    /\ held' = [list |-> MapSeq(c.ren, hd.list), orig |-> c.ren[hd.orig],
                clone |-> c.ren[hd.clone], child |-> c.ren[hd.child],
                calls |-> hd.calls + 1]
    /\ ret' = [r EXCEPT !.bd = c.ren[@], !.child = c.ren[@]]
    /\ UNCHANGED <<avBlockDevices, input>>

\* the effect of a tree operation that left the heap h, the caller holding hd
TreeFinish(h, hd, r) ==
    treeFinished(hd, r,
        Compact(h, SelectSeq(<<1>> \o hd.list
                                 \o <<hd.orig, hd.clone, hd.child, r.bd, r.child>>,
                             LAMBDA x : x # NilPtr)))

\* the caller keeps the list r that ListBlockDevices returned without error
listedOnce(r) ==
    /\ r.err.isNil
    /\ probes' = r.probes
    /\ TreeFinish(r.h, [NoHeld EXCEPT !.list = r.list.elems],
                  TreeRet("ListBlockDevices", "original", NilPtr, NilPtr, "", <<>>))

\* bds, err := ListBlockDevices(nil), once
CallListOnce ==
    /\ ret.op = ""
    /\ \E data \in TreeListings :
           listedOnce(listBlockDevices(heap, <<>>,
                          [partprobeOk |-> TRUE, lsblkOk |-> TRUE, output |-> "{...}",
                           data |-> data, scan |-> CHOOSE t \in Scans : TRUE]))

\* the caller keeps the clone r of bd
cloned(bd, r) ==
    TreeFinish(r.h, [held EXCEPT !.orig = bd, !.clone = r.ptr],
               TreeRet("Clone", "original", bd, NilPtr, "", <<>>))

\* clone := bd.Clone() for a listed device or one of its partitions
CallClone ==
    \E bd \in ListNodes(heap, held) :
        /\ cloned(bd, Clone(heap, bd))
        /\ UNCHANGED probes

\* child := &BlockDevice{Name: name, Type: BlockDeviceTypePart, Size: 100}
NewChild ==
    \E name \in {"", "sda1"} :
        LET child == NewPtr(heap)
        IN  /\ ret.op # ""
            /\ TreeFinish(Put(heap, child, [ZeroBD EXCEPT !.Name = name,
                                                          !.Type = BlockDeviceTypePart,
                                                          !.Size = 100]),
                          [held EXCEPT !.child = child],
                          TreeRet("new", "original", NilPtr, child, name, <<>>))
            /\ UNCHANGED probes

\* child.SetPartitionNumber(partition) on a partition not yet added
CallSetPartitionNumber ==
    \E partition \in 1..MaxPartition :
        /\ held.child # NilPtr
        /\ ~Attached(heap, held.child)
        /\ TreeFinish(SetPartitionNumber(heap, held.child, partition), held,
                      TreeRet("SetPartitionNumber", "original", held.child, NilPtr, "", <<>>))
        /\ UNCHANGED probes

\* what the properties compare of a child as it was before a call
Snapshot(bd) == [bd EXCEPT !.Children = NilSlice, !.Parent = NilPtr]

\* bd.AddChild(child) with the partition the caller holds
CallAddChild ==
    \E bd \in Receivers :
        /\ held.child # NilPtr
        /\ ~Attached(heap, held.child)
        /\ bd \notin Subtree(heap, held.child)
        /\ TreeFinish(AddChild(heap, bd, held.child), held,
                      TreeRet("AddChild", Side(bd, held.child), bd, held.child,
                              heap[held.child].Name,
                              [i \in 1..Len(kids(heap, bd)) |->
                                  Snapshot(heap[kids(heap, bd)[i]])]))
        /\ UNCHANGED probes

\* bd.RemoveChild(child) with one of bd's partitions or the partition the
\* caller holds
CallRemoveChild ==
    \E bd \in Receivers :
        \E child \in (Range(kids(heap, bd)) \cup {held.child}) \ {NilPtr, bd} :
            /\ TreeFinish(RemoveChild(heap, bd, child), [held EXCEPT !.child = child],
                          TreeRet("RemoveChild", Side(bd, child), bd, child,
                                  heap[child].Name,
                                  [i \in 1..Len(kids(heap, bd)) |->
                                      Snapshot(heap[kids(heap, bd)[i]])]))
            /\ UNCHANGED probes

\* bd.Label = "edited" on the device last cloned or on its clone
AssignLabel ==
    \E bd \in {held.orig, held.clone} \ {NilPtr} :
        /\ TreeFinish(Put(heap, bd, [heap[bd] EXCEPT !.Label = "edited"]), held,
                      TreeRet("assign", Side(bd, NilPtr), bd, NilPtr, "", <<>>))
        /\ UNCHANGED probes

\* bd.addRemovePartition(part)
CallAddRemovePartition ==
    \E bd \in Receivers :
        \E part \in 1..MaxPartition :
            /\ Len(heap[bd].removedParts.elems) < MaxRemoved
            /\ TreeFinish(addRemovePartition(heap, bd, part), held,
                          TreeRet("addRemovePartition", Side(bd, NilPtr), bd, NilPtr, "", <<>>))
            /\ UNCHANGED probes

\* what FreeSpace records of its call
SpaceRet(target, bd, r) ==
    [op |-> "FreeSpace", target |-> target, bd |-> bd, child |-> NilPtr,
     childName |-> "", before |-> <<>>, v |-> r.v, err |-> r.err]

\* free, err := bd.FreeSpace()
CallFreeSpace ==
    \E bd \in Receivers :
        /\ TreeFinish(heap, held, SpaceRet(Side(bd, NilPtr), bd, FreeSpace(heap, bd)))
        /\ UNCHANGED probes

\* sdaTwo once its partitions are formatted anew
sdaTwoFresh ==
    Desc("sda", StrTok("X"), "8:0", "disk", NullTok, NullTok, StrTok("disk"), StrTok("u0"),
         List(<<Part("sda1", "8:1", StrTok("ext4"), StrTok("/"), StrTok("newroot"),
                     StrTok("u7")),
                Part("sda2", "8:2", StrTok("ext4"), NullTok, NullTok, StrTok("u8"))>>))

\* a device that has got a label
freshBare(name, type) ==
    Desc(name, NullTok, "259:0", type, NullTok, NullTok, StrTok("image"), StrTok("u9"),
         Absent)

\* what lsblk does when UpdateBlockDevices asks: it lists the devices anew,
\* or fails
FreshEnvs ==
    [partprobeOk : {TRUE}, lsblkOk : {TRUE}, output : {"{...}"},
     data : {Json(<<sdaTwoFresh>>),
             Json(<<freshBare("nvme0n1", "disk"), freshBare("loop0", "loop")>>)},
     scan : Scans]
    \cup
    [partprobeOk : {TRUE}, lsblkOk : {FALSE}, output : {"lsblk: failed"},
     data : {Json(<<>>)}, scan : Scans]

\* the state after UpdateBlockDevices(medias) has gone as u says, lsblk
\* having been asked for data
updatedTree(medias, data, u) ==
    /\ probes' = u.probes
    /\ TreeFinish(u.h, held,
                  [op |-> "UpdateBlockDevices",
                   target |-> Side(medias[1], NilPtr), bd |-> medias[1],
                   child |-> NilPtr, childName |-> "",
                   before |-> [i \in 1..Len(Preorder(heap, medias)) |->
                                  Snapshot(heap[Preorder(heap, medias)[i]])],
                   fresh |-> data.blockdevices.list, err |-> u.err])

\* err := UpdateBlockDevices([]*BlockDevice{media}) with a listed device or
\* the clone
CallUpdateTree ==
    \E media \in Receivers, env \in FreshEnvs :
        updatedTree(<<media>>, env.data,
                    updated(heap, <<media>>, listBlockDevices(heap, <<>>, env)))

NextTree ==
    \/ CallFreeSpace
    \/ CallUpdateTree
    \/ CallListOnce
    \/ CallClone
    \/ NewChild
    \/ CallSetPartitionNumber
    \/ CallAddChild
    \/ CallRemoveChild
    \/ AssignLabel
    \/ CallAddRemovePartition

SpecTree == Init /\ [][NextTree]_vars

----------------------------------------------------------------------------
(* The decoding specification: parseBlockDevicesDescriptor on one listing. *)

MountPoints == {NullTok, StrTok(""), StrTok("/mnt")}

Labels == {NullTok, StrTok("data"), StrTok("myCLR_ISO_2")}

FsTypes == {NullTok, StrTok("ext4"), StrTok("squashfs")}

\* a partition of a partition, mounted
Nested == Part("sda1p1", "259:1", StrTok("ext4"), StrTok("/boot"), NullTok, NullTok)

\* the partitions lsblk can report under the root device
ChildDescs ==
    {Part("sdaN", "8:1", StrTok("squashfs"), m, l, NullTok) : m \in MountPoints, l \in Labels}
    \cup {Desc("sdaN", NullTok, "8:1", "part", NullTok, NullTok, NullTok, NullTok,
               List(<<Nested>>))}

\* the children key of the root device: absent, or a list of at most
\* MaxChildren partitions
ChildLists ==
    {Absent} \cup {List(l) : l \in UNION {[1..k -> ChildDescs] : k \in 0..MaxChildren}}

\* the root devices lsblk can report: mount point and label of the root
\* device itself vary too
RootDescs ==
    {Desc("sda", StrTok("X"), "8:0", "disk", f, m, l, NullTok, c) :
        f \in FsTypes, m \in {NullTok, StrTok("/")}, l \in {NullTok, StrTok("CLR_ISO_1")},
        c \in ChildLists}

\* the listings: one root device, alone or followed by sdb
DecodeInputs ==
    {Json(<<r>>) : r \in RootDescs} \cup {Json(<<r, sdbFree>>) : r \in RootDescs}

InitDecode ==
    /\ heap = <<>>
    /\ avBlockDevices = NilSlice
    /\ ret = NoCall
    /\ probes = <<>>
    /\ input \in DecodeInputs
    /\ held = NoHeld

\* the state after parseBlockDevicesDescriptor has returned r
decoded(r) ==
    /\ heap' = r.h
    /\ ret' = [NoCall EXCEPT !.op = "parseBlockDevicesDescriptor",
                             !.list = r.list,
                             !.err = IF r.err = "" THEN NoError ELSE Error(r.err)]

\* parseBlockDevicesDescriptor(input)
Decode ==
    /\ ret.op = ""
    /\ decoded(parseBlockDevicesDescriptor(heap, input))
    /\ UNCHANGED <<avBlockDevices, probes, input, held>>

SpecDecode == InitDecode /\ [][Decode]_vars

----------------------------------------------------------------------------
(* The layout specification: Validate, DiskSize and NewStandardPartitions  *)
(* on a tree the installer has assembled with AddChild.                    *)

\* a device to be attached, with the devices to be attached to it
Planned(type, fstype, mountpoint, size, sub) ==
    [bd |-> [ZeroBD EXCEPT !.Type = type, !.FsType = fstype,
                           !.MountPoint = mountpoint, !.Size = size],
     sub |-> sub]

RECURSIVE assemble(_, _, _, _)
\* h after parent.AddChild(child) for each of descs in turn, the k-th child
\* being given partition number k and no name, and so on below each child
assemble(h, parent, descs, k) ==
    IF descs = <<>> THEN h
    ELSE LET child == NewPtr(h)
             h1 == AddChild(Put(h, child, [Head(descs).bd EXCEPT !.partition = k]),
                            parent, child)
         IN  assemble(assemble(h1, child, Head(descs).sub, 1), parent, Tail(descs), k + 1)

\* the tree of a device named name with the children descs
Assembled(name, type, size, descs) ==
    assemble(1 :> [ZeroBD EXCEPT !.Name = name, !.Type = type, !.Size = size],
             1, descs, 1)

\* the lists of at most n elements of S
UpTo(S, n) == UNION {[1..k -> S] : k \in 0..n}

\* the partitions Validate tells apart: an EFI partition, an encrypted one, a
\* root, an encrypted root, an encrypted swap, a partition without a size
\* and a /boot that is not vfat
ValidateKinds ==
    {Planned(BlockDeviceTypePart, "vfat", "/boot", 100, <<>>),
     Planned(BlockDeviceTypeCrypt, "vfat", "/boot", 100, <<>>),
     Planned(BlockDeviceTypePart, "ext4", "/", 100, <<>>),
     Planned(BlockDeviceTypeCrypt, "ext4", "/", 100, <<>>),
     Planned(BlockDeviceTypeCrypt, "swap", "", 100, <<>>),
     Planned(BlockDeviceTypePart, "ext4", "", 0, <<>>),
     Planned(BlockDeviceTypePart, "ext4", "/boot", 100, <<>>)}

\* a disk, an image file without a size and one with a size
ValidateHeaps ==
    {Assembled(p[1], p[2], p[3], cs) :
        p \in {<<"sda", BlockDeviceTypeDisk, 1000>>, <<"loop0", BlockDeviceTypeLoop, 0>>,
               <<"loop0", BlockDeviceTypeLoop, 1000>>},
        cs \in UpTo(ValidateKinds, MaxChildren)}

\* partitions of 100 and 250 bytes, one of 2^64 - 1 bytes, and volume groups
\* with one or two volumes of 100 bytes that declare no size, less than
\* their volumes have, or more
SizeKinds ==
    {Planned(BlockDeviceTypePart, "ext4", "", sz, <<>>) : sz \in {100, 250, -1}}
    \cup {Planned(BlockDeviceTypeLVM2Group, "", "", sz, vols) :
             sz \in {0, 150, 300},
             vols \in {<<Planned(BlockDeviceTypeLVM2Volume, "ext4", "", 100, <<>>)>>,
                       <<Planned(BlockDeviceTypeLVM2Volume, "ext4", "", 100, <<>>),
                         Planned(BlockDeviceTypeLVM2Volume, "ext4", "", 100, <<>>)>>}}

\* a disk that declares no size or 300 bytes
SizeHeaps ==
    {Assembled("sda", BlockDeviceTypeDisk, sz, cs) :
        sz \in {0, 300}, cs \in UpTo(SizeKinds, MaxChildren)}

\* disks below, at and above the size of boot and swap together, with a
\* partition and a partition table from an earlier layout
StandardHeaps ==
    {Put(h, 1, [h[1] EXCEPT !.PartTable = [arr |-> 1, rows |-> <<FreeRow(0, 1000)>>]]) :
        h \in {Assembled("sda", BlockDeviceTypeDisk, sz,
                         <<Planned(BlockDeviceTypePart, "ext4", "/", 1000, <<>>)>>) :
                  sz \in {100 * (1000 * 1000), bootSize + swapSize, 1000 * (1000 * 1000)}}}

\* the rows findFree tells apart: free space of 300, 150 and 100 bytes, a
\* partition, a row numbered 0 that is not free space and a numbered row
\* whose filesystem reads free
RowKinds ==
    {[Number |-> k[1], FileSystem |-> k[2], Size |-> k[3]] :
        k \in {<<0, "free", 300>>, <<0, "free", 150>>, <<0, "free", 100>>,
               <<1, "ext4", 300>>, <<0, "ext4", 300>>, <<2, "free", 300>>}}

\* where row i of a table of these kinds starts: after the rows before it
startOf(kinds, i) ==
    (IF i > 1 THEN kinds[1].Size ELSE 0) + (IF i > 2 THEN kinds[2].Size ELSE 0)
        + (IF i > 3 THEN kinds[3].Size ELSE 0) + (IF i > 4 THEN kinds[4].Size ELSE 0)

\* the partition table with rows of these kinds, one after another
LaidOut(kinds) ==
    [i \in 1..Len(kinds) |->
        [Number |-> kinds[i].Number, Start |-> startOf(kinds, i),
         End |-> startOf(kinds, i) + kinds[i].Size, Size |-> kinds[i].Size,
         FileSystem |-> kinds[i].FileSystem, Name |-> "", Flags |-> ""]]

\* a disk without children with a partition table of up to MaxRows rows
TableHeaps ==
    {Put(h, 1, [h[1] EXCEPT !.PartTable = [arr |-> 1, rows |-> LaidOut(kinds)]]) :
        h \in {Assembled("sda", BlockDeviceTypeDisk, 1000, <<>>)},
        kinds \in UpTo(RowKinds, MaxRows)}

RECURSIVE addAll(_, _, _)
\* h after parent.AddChild(&child) for each of the literals bds in turn
addAll(h, parent, bds) ==
    IF bds = <<>> THEN h
    ELSE addAll(AddChild(Put(h, NewPtr(h), Head(bds)), parent, NewPtr(h)), parent, Tail(bds))

\* a partition without a name, of i * 100 bytes, with the partition number
\* n or, for n = 0, not yet given one
Unnamed(i, n) ==
    [ZeroBD EXCEPT !.Type = BlockDeviceTypePart, !.Size = i * 100, !.partition = n]

\* a disk and the up to MaxChildren + 1 partitions added to it, none named,
\* each with a partition number of its own or without one
ChildHeaps ==
    {addAll(1 :> [ZeroBD EXCEPT !.Name = "sda", !.Type = BlockDeviceTypeDisk, !.Size = 1000],
            1, [i \in 1..Len(ns) |-> Unnamed(i, ns[i])]) :
        ns \in {m \in UpTo(0..(MaxChildren + 1), MaxChildren + 1) :
                   \A i, j \in 1..Len(m) : (i # j /\ m[i] = m[j]) => m[i] = 0}}

\* the sizes asked of findFree: nothing, the sizes of the free rows, sizes
\* between and above them, and 2^64 - 1
FreeSizes == {0, 100, 120, 150, 300, 301, -1}

InitPlan ==
    /\ heap \in ValidateHeaps \cup SizeHeaps \cup StandardHeaps \cup TableHeaps
                \cup ChildHeaps
    /\ avBlockDevices = NilSlice
    /\ ret = NoCall
    /\ probes = <<>>
    /\ input = NoInput
    /\ held = [NoHeld EXCEPT !.list = <<1>>]

\* what a call on the assembled device records: the operation, its
\* arguments, the value and the error it returned and, of
\* NewStandardPartitions, the root size it asked for
PlanRet(op, legacyBios, cryptPass, v, err, root) ==
    [op |-> op, bd |-> 1, legacyBios |-> legacyBios, cryptPass |-> cryptPass,
     v |-> v, err |-> err, rootSize |-> root]

\* err := disk.Validate(legacyBios, cryptPass)
CallValidate ==
    \E legacyBios \in BOOLEAN, cryptPass \in {"", "secret"} :
        /\ ret.op = ""
        /\ ret' = PlanRet("Validate", legacyBios, cryptPass, 0,
                          Validate(heap, 1, legacyBios, cryptPass), 0)
        /\ UNCHANGED <<heap, avBlockDevices, probes, input, held>>

\* the state after DiskSize has returned r
sized(r) == ret' = PlanRet("DiskSize", FALSE, "", r.v, r.err, 0)

\* size, err := disk.DiskSize()
CallDiskSize ==
    /\ ret.op = ""
    /\ sized(DiskSize(heap, 1))
    /\ UNCHANGED <<heap, avBlockDevices, probes, input, held>>

\* NewStandardPartitions(disk)
CallNewStandardPartitions ==
    /\ ret.op = ""
    /\ heap' = NewStandardPartitions(heap, 1)
    /\ ret' = PlanRet("NewStandardPartitions", FALSE, "", 0, NoError, rootSize(heap[1]))
    /\ UNCHANGED <<avBlockDevices, probes, input, held>>

\* what a call of findFree records: the size asked for, the pointer
\* returned and the partition table before the call
FreeRet(size, v, before) ==
    [op |-> "findFree", bd |-> 1, size |-> size, v |-> v, before |-> before]

\* freePart := disk.findFree(size)
CallFindFree ==
    \E size \in FreeSizes :
        /\ ret.op = ""
        /\ ret' = FreeRet(size, findFree(heap, 1, size), heap[1].PartTable)
        /\ UNCHANGED <<heap, avBlockDevices, probes, input, held>>

\* what a call of RemoveChild with one of the device's children records:
\* the child, its place among the children and the children as they were
ChildRet(child, at, before) ==
    [op |-> "RemoveChild", bd |-> 1, child |-> child, at |-> at, before |-> before]

\* disk.RemoveChild(disk.Children[at]), also after an earlier such call
CallRemoveChildAt ==
    \E at \in 1..Len(kids(heap, 1)) :
        /\ ret.op \in {"", "RemoveChild"}
        /\ heap' = RemoveChild(heap, 1, kids(heap, 1)[at])
        /\ ret' = ChildRet(kids(heap, 1)[at], at,
                           [i \in 1..Len(kids(heap, 1)) |-> Snapshot(heap[kids(heap, 1)[i]])])
        /\ UNCHANGED <<avBlockDevices, probes, input, held>>

NextPlan ==
    \/ CallValidate
    \/ CallDiskSize
    \/ CallNewStandardPartitions
    \/ CallFindFree
    \/ CallRemoveChildAt

SpecPlan == InitPlan /\ [][NextPlan]_vars

----------------------------------------------------------------------------
(* The size specification: the size parsers, the size formatter and the    *)
(* size token of a listing, each on one input.                             *)

Numerals ==
    {"0", "1", "10", "150", "1023", "4096", "16383", "9007199254740993", "18446744073"}

UnitLetters == {"b", "k", "m", "g", "t", "p", "B", "K", "M", "G", "T", "P"}

\* n * 1024^k for the unit's power k, computed exactly
BinaryExact(n, u) == Shl(FromDecimal(n), 10 * UnitPower(ToLower(u)))

\* n * 1000^k for the unit's power k, computed exactly
DecimalExact(n, u) == BMul(FromDecimal(n), Pow10(3 * UnitPower(ToLower(u))))

\* the strings handed to the parsers: a whole number with a unit, the result
\* within 64 bits, and strings with a fraction, without digits, without a
\* unit or with a letter that is no unit
SizeStrings ==
    UNION {{n \o u : n \in {m \in Numerals : BitLen(BinaryExact(m, u)) <= 64}} :
               u \in UnitLetters}
    \cup {"1.5G", "0.1k", ".5m", "2.", ".", "k", "12", "12x", ""}

\* the byte counts handed to the formatter: n * 1000^k and some in between
ByteCounts ==
    {DecimalExact(n, u) : n \in {"0", "1", "10", "15", "1500", "1234"},
                          u \in {"b", "k", "m", "g", "t", "p"}}

\* the size tokens of a listing
SizeTokens == {NullTok, StrTok("10M"), NumTok(10485760), StrTok("512"), StrTok("1x"),
               NumTok(0), BoolTok(TRUE)}

NoSize == [str |-> "", size |-> <<>>, unit |-> "", precision |-> 0, tok |-> NoTok]

SizeInputs ==
    {[NoSize EXCEPT !.str = s] : s \in SizeStrings}
    \cup {[NoSize EXCEPT !.size = n, !.unit = u, !.precision = p] :
              n \in ByteCounts, u \in {"", "K", "M", "G", "T", "P", "B", "m", "X"},
              p \in {-1, 0, 2}}
    \cup {[NoSize EXCEPT !.tok = t] : t \in SizeTokens}

InitSize ==
    /\ heap = <<>>
    /\ avBlockDevices = NilSlice
    /\ ret = NoCall
    /\ probes = <<>>
    /\ input \in SizeInputs
    /\ held = NoHeld

\* a call of op on arg that returned the number v or the string text
SizeRet(op, arg, v, text, err) ==
    [op |-> op, arg |-> arg, v |-> v, text |-> text, err |-> err]

sizeParsed(op, arg, r) ==
    /\ ret' = SizeRet(op, arg, r.v, "", r.err)
    /\ UNCHANGED <<heap, avBlockDevices, probes, input, held>>

\* size, err := ParseVolumeSize(input.str)
CallParseVolumeSize ==
    /\ ret.op = ""
    /\ input.tok = NoTok /\ input.size = <<>> /\ input.unit = ""
    /\ sizeParsed("ParseVolumeSize", input, ParseVolumeSize(input.str))

\* size, err := ParseVolumeHumanSize(input.str)
CallParseVolumeHumanSize ==
    /\ ret.op = ""
    /\ input.tok = NoTok /\ input.size = <<>> /\ input.unit = ""
    /\ sizeParsed("ParseVolumeHumanSize", input, ParseVolumeHumanSize(input.str))

\* size, err := getNextByteToken(dec, "size") with input.tok next
CallGetNextByteToken ==
    /\ ret.op = ""
    /\ input.tok # NoTok
    /\ sizeParsed("getNextByteToken", input, getNextByteToken(input.tok, "size"))

sizeFormatted(r) ==
    /\ ret' = SizeRet("HumanReadableSizeWithUnitAndPrecision", input, <<>>, r.v, r.err)
    /\ UNCHANGED <<heap, avBlockDevices, probes, input, held>>

\* text, err := HumanReadableSizeWithUnitAndPrecision(size, unit, precision)
CallHumanReadableSize ==
    /\ ret.op = ""
    /\ input.tok = NoTok /\ input.str = ""
    /\ sizeFormatted(HumanReadableSizeWithUnitAndPrecision(input.size, input.unit,
                                                           input.precision))

\* size, err := ParseVolumeHumanSize(text) of the text just formatted
CallParseFormatted ==
    /\ ret.op = "HumanReadableSizeWithUnitAndPrecision"
    /\ ret.err = ""
    /\ sizeParsed("ParseVolumeHumanSize", [ret.arg EXCEPT !.str = ret.text],
                  ParseVolumeHumanSize(ret.text))

NextSize ==
    \/ CallParseVolumeSize
    \/ CallParseVolumeHumanSize
    \/ CallGetNextByteToken
    \/ CallHumanReadableSize
    \/ CallParseFormatted

SpecSize == InitSize /\ [][NextSize]_vars

----------------------------------------------------------------------------
(* Properties of decoding.                                                 *)

\* C6: in the list parseBlockDevicesDescriptor returns, a root device is
\* not available exactly when one of its children has a non-empty mount
\* point, or one of its children has a label that contains CLR_ISO, or its
\* own filesystem type contains squashfs.
C6_AvailableIff ==
    ret.op = "parseBlockDevicesDescriptor" =>
        /\ ret.err.isNil
        /\ Len(ret.list.elems) = Len(input.blockdevices.list)
        /\ \A i \in 1..Len(ret.list.elems) :
               LET bd == heap[ret.list.elems[i]]
               IN  ~bd.available <=>
                       \/ \E k \in 1..Len(bd.Children.elems) :
                              heap[bd.Children.elems[k]].MountPoint # ""
                       \/ \E k \in 1..Len(bd.Children.elems) :
                              Contains(heap[bd.Children.elems[k]].Label, "CLR_ISO")
                       \/ Contains(bd.FsType, "squashfs")

\* a root device that is not available for the sake of its second child's
\* label alone, after a first child that disqualifies nothing
C6_Witness ==
    /\ ret.op = "parseBlockDevicesDescriptor"
    /\ Len(ret.list.elems) = 2
    /\ LET bd == heap[ret.list.elems[1]]
       IN  /\ ~bd.available
           /\ bd.FsType = "ext4"
           /\ Len(bd.Children.elems) = 2
           /\ heap[bd.Children.elems[1]].MountPoint = ""
           /\ heap[bd.Children.elems[1]].Label = "data"
           /\ heap[bd.Children.elems[2]].MountPoint = ""
           /\ heap[bd.Children.elems[2]].Label = "myCLR_ISO_2"
    /\ heap[ret.list.elems[2]].available

----------------------------------------------------------------------------
(* Properties of discovery.                                                *)

\* the step is a call of op (every call records its name)
Called(op) == ret'.op = op

\* C1: once ListAvailableBlockDevices has succeeded, also with an empty
\* result, the cache is set to the returned list, and from then on every call
\* of ListAvailableBlockDevices returns the cached list itself, without error
\* and without running an external command, the cached devices untouched;
\* only RescanBlockDevices makes the cache another list.
C1_CachedUntilRescan ==
    [][/\ (Called("ListAvailableBlockDevices") /\ avBlockDevices.isNil /\ ret'.err.isNil)
              => (~avBlockDevices'.isNil /\ avBlockDevices' = ret'.list)
       /\ (Called("ListAvailableBlockDevices") /\ ~avBlockDevices.isNil)
              => /\ ret'.list = avBlockDevices
                 /\ ret'.err.isNil
                 /\ probes' = <<>>
                 /\ avBlockDevices' = avBlockDevices
                 /\ \A p \in Range(avBlockDevices.elems) : heap'[p] = heap[p]
       /\ (~avBlockDevices.isNil /\ ~Called("RescanBlockDevices"))
              => avBlockDevices' = avBlockDevices]_vars

\* a call of ListAvailableBlockDevices answered from a cache that holds no
\* device at all
C1_Witness ==
    /\ ret.op = "ListAvailableBlockDevices"
    /\ probes = <<>>
    /\ ~avBlockDevices.isNil
    /\ avBlockDevices.elems = <<>>
    /\ ret.list = avBlockDevices

\* C2: the cache is nil at start; it becomes non-nil only in a call of
\* ListAvailableBlockDevices (RescanBlockDevices makes that call) that ran a
\* discovery and returned no error; a non-nil cache becomes nil only in
\* RescanBlockDevices; ListBlockDevices, UpdateBlockDevices and a failed
\* ListAvailableBlockDevices leave it as it is; RescanBlockDevices always
\* discovers anew and leaves the cache nil when the discovery fails, and a
\* ListAvailableBlockDevices that finds the cache nil runs the probes.
C2_CacheLifecycle ==
    /\ avBlockDevices.isNil
    /\ [][/\ (Called("ListBlockDevices") \/ Called("UpdateBlockDevices"))
                 => avBlockDevices' = avBlockDevices
          /\ (Called("ListAvailableBlockDevices") /\ ~ret'.err.isNil)
                 => avBlockDevices' = avBlockDevices
          /\ (avBlockDevices.isNil /\ ~avBlockDevices'.isNil)
                 => /\ Called("ListAvailableBlockDevices") \/ Called("RescanBlockDevices")
                    /\ ret'.err.isNil
                    /\ probes' # <<>>
          /\ (~avBlockDevices.isNil /\ avBlockDevices'.isNil)
                 => Called("RescanBlockDevices")
          /\ Called("RescanBlockDevices")
                 => /\ probes' # <<>>
                    /\ ~ret'.err.isNil => avBlockDevices'.isNil
          /\ (Called("ListAvailableBlockDevices") /\ avBlockDevices.isNil)
                 => probes' # <<>>]_vars

\* a RescanBlockDevices whose discovery failed, the cache left nil
C2_Witness ==
    /\ ret.op = "RescanBlockDevices"
    /\ ~ret.err.isNil
    /\ probes # <<>>
    /\ avBlockDevices.isNil

\* a and b have the same name, model and major:minor
SameIdentity(a, b) ==
    /\ heap[a].Name = heap[b].Name
    /\ heap[a].Model = heap[b].Model
    /\ heap[a].MajorMinor = heap[b].MajorMinor

\* C3: a successful discovery given a non-empty userDefined list returns a
\* list as long as the discovered one, whose i-th element is the first
\* user-defined device with the name, model and major:minor of the i-th
\* discovered device, or that discovered device when there is none; a
\* user-defined device that matches no discovered device is not returned.
C3_MergeByIdentity ==
    (ret.op = "ListBlockDevices" /\ ret.err.isNil /\ ret.userDefined # <<>>) =>
        LET ud == ret.userDefined
            got == ret.list.elems
        IN  /\ ~ret.list.isNil
            /\ Len(got) = Len(ret.loaded)
            /\ \A i \in 1..Len(got) :
                   \/ /\ got[i] = ret.loaded[i]
                      /\ \A k \in 1..Len(ud) : ~SameIdentity(ret.loaded[i], ud[k])
                   \/ \E k \in 1..Len(ud) :
                          /\ got[i] = ud[k]
                          /\ SameIdentity(ret.loaded[i], ud[k])
                          /\ \A j \in 1..(k - 1) : ~SameIdentity(ret.loaded[i], ud[j])
            /\ \A k \in 1..Len(ud) :
                   (\A i \in 1..Len(got) : ~SameIdentity(ret.loaded[i], ud[k]))
                       => ud[k] \notin Range(got)

\* two user-defined devices given, the second one (sda to be mounted at /)
\* took the place of the discovered sda, the first one matched nothing and
\* was dropped, and a discovered device without a match stayed
C3_Witness ==
    /\ ret.op = "ListBlockDevices" /\ ret.err.isNil
    /\ Len(ret.userDefined) = 2
    /\ Len(ret.list.elems) = 2
    /\ ret.userDefined[1] \notin Range(ret.list.elems)
    /\ \E i \in 1..2 :
           /\ ret.list.elems[i] = ret.userDefined[2]
           /\ ret.list.elems[i] # ret.loaded[i]
           /\ heap[ret.list.elems[i]].MountPoint = "/"
           /\ heap[ret.loaded[i]].MountPoint = ""
    /\ \E i \in 1..2 : ret.list.elems[i] = ret.loaded[i]

\* C4: a discovery cycle runs partprobe first and lsblk second whatever
\* partprobe's exit status; when lsblk fails the call returns an error whose
\* message is what lsblk wrote, nothing runs after lsblk, the list returned
\* is nil, and the cache is nil after ListAvailableBlockDevices and
\* RescanBlockDevices and untouched after the other operations.
C4_ProbeOrderAndFailure ==
    [][probes' # <<>> =>
           /\ Len(probes') >= 2
           /\ probes'[1].cmd = "partprobe"
           /\ probes'[2].cmd = "lsblk"
           /\ \A i \in 3..Len(probes') : probes'[i].cmd = "parted"
           /\ ~probes'[2].ok =>
                  /\ ~ret'.err.isNil
                  /\ ret'.err.msg = probes'[2].out
                  /\ Len(probes') = 2
                  /\ ~Called("UpdateBlockDevices") => ret'.list = NilSlice
                  /\ IF Called("ListAvailableBlockDevices") \/ Called("RescanBlockDevices")
                     THEN avBlockDevices'.isNil
                     ELSE avBlockDevices' = avBlockDevices]_vars

\* lsblk failed in a call of ListAvailableBlockDevices: two commands ran,
\* the error carries lsblk's output, the cache is still nil
C4_Witness ==
    /\ ret.op = "ListAvailableBlockDevices"
    /\ Len(probes) = 2
    /\ ~probes[2].ok
    /\ ret.err = Error("lsblk: failed")
    /\ ret.list.isNil
    /\ avBlockDevices.isNil

\* the positions of merged whose device is available
AvailableAt(merged) == {i \in 1..Len(merged) : heap[merged[i]].available}

\* C5: after a discovery, ListAvailableBlockDevices and RescanBlockDevices
\* return exactly the devices of the merged list whose own available flag
\* is set, in the order of the merged list; so a user-defined device that
\* the merge put in is judged by its own flag, not by the flag of the
\* discovered device it stands for.
C5_FilterByOwnFlag ==
    (/\ ret.op \in {"ListAvailableBlockDevices", "RescanBlockDevices"}
     /\ ret.err.isNil
     /\ probes # <<>>) =>
        LET got == ret.list.elems
        IN  /\ \A i \in 1..Len(got) : heap[got[i]].available
            /\ Len(got) = Cardinality(AvailableAt(ret.merged))
            /\ \E f \in [1..Len(got) -> AvailableAt(ret.merged)] :
                   /\ \A i \in 1..Len(got) : ret.merged[f[i]] = got[i]
                   /\ \A i, j \in 1..Len(got) : i < j => f[i] < f[j]

\* the discovered sda is unused, the user-defined sda that took its place is
\* not available and is left out
C5_Witness ==
    /\ ret.op = "RescanBlockDevices" /\ ret.err.isNil
    /\ \E i \in 1..Len(ret.merged) :
           /\ ret.merged[i] \in Range(ret.userDefined)
           /\ ret.merged[i] # ret.loaded[i]
           /\ heap[ret.loaded[i]].available
           /\ ~heap[ret.merged[i]].available
           /\ ret.merged[i] \notin Range(ret.list.elems)

----------------------------------------------------------------------------
(* Properties of the tree operations.                                      *)

\* C7: every device that is an element of some device's Children has that
\* device as its Parent.
C7_ParentIsHolder ==
    \A p \in DOMAIN heap :
        \A i \in 1..Len(kids(heap, p)) : heap[kids(heap, p)[i]].Parent = p

\* the devices of the original and of its clone, parents before children
OrigNodes == Preorder(heap, <<held.orig>>)
ClonedNodes == Preorder(heap, <<held.clone>>)

\* C8: the tree Clone returns has the shape of the original, children in
\* the same order, and each of its devices has the value of the original's
\* device in every data field.
C8_CloneSameData ==
    ret.op = "Clone" =>
        /\ Len(ClonedNodes) = Len(OrigNodes)
        /\ \A i \in 1..Len(ClonedNodes) :
               /\ Len(kids(heap, ClonedNodes[i])) = Len(kids(heap, OrigNodes[i]))
               /\ \A f \in DataFields : heap[ClonedNodes[i]][f] = heap[OrigNodes[i]][f]

\* C9: the devices of the tree Clone returns are none of the devices of the
\* listed trees, each has as Parent the cloned device that holds it, and
\* each has the very PartTable and removedParts of the device it is the
\* clone of; and AddChild, RemoveChild and an assignment to a field, given
\* devices of the clone, leave every device of the listed trees as it was.
C9_CloneIsSeparate ==
    /\ [](ret.op = "Clone" =>
              /\ Range(ClonedNodes) \cap (ListNodes(heap, held) \cup Range(OrigNodes)) = {}
              /\ Len(ClonedNodes) = Len(OrigNodes)
              /\ \A i \in 1..Len(ClonedNodes) :
                     /\ \A k \in 1..Len(kids(heap, ClonedNodes[i])) :
                            heap[kids(heap, ClonedNodes[i])[k]].Parent = ClonedNodes[i]
                     /\ heap[ClonedNodes[i]].PartTable = heap[OrigNodes[i]].PartTable
                     /\ heap[ClonedNodes[i]].removedParts = heap[OrigNodes[i]].removedParts)
    /\ [][(ret'.op \in {"AddChild", "RemoveChild", "assign"} /\ ret'.target = "clone") =>
              \A n \in ListNodes(heap, held) : n \in DOMAIN heap' /\ heap'[n] = heap[n]]_vars

\* a partition removed from the clone of a listed disk that has a partition
\* table and a list of removed partitions: the clone has lost a child, the
\* disk has not
C9_Witness ==
    /\ ret.op = "RemoveChild" /\ ret.target = "clone"
    /\ ret.bd = held.clone
    /\ held.orig \in Range(held.list)
    /\ Len(kids(heap, held.orig)) = 2
    /\ Len(kids(heap, held.clone)) = 1
    /\ heap[held.orig].PartTable.arr # 0
    /\ heap[held.clone].PartTable = heap[held.orig].PartTable
    /\ heap[held.orig].removedParts.arr # 0
    /\ heap[held.clone].removedParts = heap[held.orig].removedParts

\* the children bd had before the call whose name is not the removed one
KeptChildren == SelectSeq(ret.before, LAMBDA b : b.Name # ret.childName)

\* C10: after RemoveChild(parent, child) no child of parent has the name
\* child had when the call was made, and the children of parent are the
\* other children it had, in the order they were in.
C10_RemovedNameGone ==
    ret.op = "RemoveChild" =>
        LET now == kids(heap, ret.bd)
        IN  /\ \A i \in 1..Len(now) : heap[now[i]].Name # ret.childName
            /\ Len(now) = Len(KeptChildren)
            /\ \A i \in 1..Len(now) :
                   \A f \in {"UUID", "Label", "FsType", "MountPoint", "Size", "partition"} :
                       heap[now[i]][f] = KeptChildren[i][f]

\* the name the claim gives an unnamed child of parent: the parent's name,
\* "p" after it for a loop, nvme or mmcblk device, then the partition number
\* or "?"
SynthesizedName(parent, child) ==
    parent.Name
        \o (IF \/ parent.Type = BlockDeviceTypeLoop
               \/ Contains(parent.Name, "nvme")
               \/ Contains(parent.Name, "mmcblk")
            THEN "p" ELSE "")
        \o (IF child.partition = 0 THEN "?" ELSE Itoa(child.partition))

\* C11: after AddChild(parent, child) the children of parent are the
\* children it had, in their order, followed by child; child.Parent is
\* parent; a child that had a name keeps it, and a child that had none is
\* named after the parent's base name and its own partition number, or "?"
\* when it has no partition number.
C11_AddChildAppends ==
    ret.op = "AddChild" =>
        LET now == kids(heap, ret.bd)
        IN  /\ Len(now) = Len(ret.before) + 1
            /\ now[Len(now)] = ret.child
            /\ \A i \in 1..Len(ret.before) : Snapshot(heap[now[i]]) = ret.before[i]
            /\ heap[ret.child].Parent = ret.bd
            /\ ret.childName # "" => heap[ret.child].Name = ret.childName
            /\ ret.childName = "" =>
                   heap[ret.child].Name = SynthesizedName(heap[ret.bd], heap[ret.child])

\* a numbered partition without a name added as the first child of a loop
\* device
C11_Witness ==
    /\ ret.op = "AddChild"
    /\ ret.childName = ""
    /\ heap[ret.bd].Type = BlockDeviceTypeLoop
    /\ kids(heap, ret.bd) = <<ret.child>>
    /\ heap[ret.child].partition = 1
    /\ heap[ret.child].Name = "loop0p1"

----------------------------------------------------------------------------
(* Properties of the layout checks.                                        *)

\* the children of the assembled device, in order
PlanChildren == [i \in 1..Len(kids(heap, 1)) |-> heap[kids(heap, 1)[i]]]

IsEfi(ch) == ch.FsType = "vfat" /\ ch.MountPoint = "/boot"

IsCryptEfi(ch) == IsEfi(ch) /\ ch.Type = BlockDeviceTypeCrypt

HasChild(Is(_)) == \E i \in 1..Len(PlanChildren) : Is(PlanChildren[i])

HasRoot == \E i \in 1..Len(PlanChildren) : PlanChildren[i].MountPoint = "/"

HasCrypt == \E i \in 1..Len(PlanChildren) : PlanChildren[i].Type = BlockDeviceTypeCrypt

\* the device is no disk and declares no size, and neither does one of its
\* first n children
NoSizeWithin(n) ==
    /\ heap[1].Type # BlockDeviceTypeDisk
    /\ heap[1].Size = 0
    /\ \E i \in 1..n : PlanChildren[i].Size = 0

EfiError == Error("Could not find a suitable EFI partition")

NoSizeError == Error("Both image size and partition size cannot be 0")

CryptBootError == Error("Encryption of /boot is not supported")

\* C12 as stated: on a tree with a child mounted at "/" and no vfat child
\* mounted at "/boot", Validate fails with the EFI error when legacyBios is
\* false and, if no child is of crypt type, succeeds when legacyBios is true.
C12_EfiUnlessLegacy ==
    (ret.op = "Validate" /\ HasRoot /\ ~HasChild(IsEfi)) =>
        /\ ~ret.legacyBios => ret.err = EfiError
        /\ (ret.legacyBios /\ ~HasCrypt) => ret.err.isNil

\* C12 as amended: the same, except on a device that is no disk, declares
\* size 0 and has a child of size 0, where Validate fails with the error
\* about both sizes being 0 whatever legacyBios is.
C12_EfiUnlessLegacyOrNoSize ==
    (ret.op = "Validate" /\ HasRoot /\ ~HasChild(IsEfi)) =>
        IF NoSizeWithin(Len(PlanChildren)) THEN ret.err = NoSizeError
        ELSE /\ ~ret.legacyBios => ret.err = EfiError
             /\ (ret.legacyBios /\ ~HasCrypt) => ret.err.isNil

\* an image file with a root and a /boot that is not vfat, accepted for a
\* legacy BIOS
C12_Witness ==
    /\ ret.op = "Validate" /\ ret.legacyBios /\ ret.err.isNil
    /\ heap[1].Type = BlockDeviceTypeLoop
    /\ HasRoot /\ ~HasChild(IsEfi) /\ ~HasCrypt
    /\ \E i \in 1..Len(PlanChildren) : PlanChildren[i].MountPoint = "/boot"

\* C13: Validate returns no error only for a tree of which exactly one
\* child has mount point "/".
C13_ExactlyOneRoot ==
    (ret.op = "Validate" /\ ret.err.isNil) =>
        Cardinality({i \in 1..Len(PlanChildren) : PlanChildren[i].MountPoint = "/"}) = 1

\* the place of the first vfat child mounted at "/boot" that is of crypt type
FirstCryptEfi ==
    CHOOSE i \in 1..Len(PlanChildren) :
        /\ IsCryptEfi(PlanChildren[i])
        /\ \A j \in 1..(i - 1) : ~IsCryptEfi(PlanChildren[j])

HasCryptData ==
    \E i \in 1..Len(PlanChildren) :
        PlanChildren[i].Type = BlockDeviceTypeCrypt /\ PlanChildren[i].FsType # "swap"

\* C14 as stated: with a vfat child mounted at "/boot" that is of crypt
\* type, Validate fails with the error about the encryption of /boot,
\* whatever the passphrase and legacyBios and wherever the child is; without
\* one, it fails when a crypt child with a filesystem other than swap exists
\* and the passphrase is empty.
C14_CryptBootRejected ==
    ret.op = "Validate" =>
        /\ HasChild(IsCryptEfi) => ret.err = CryptBootError
        /\ (~HasChild(IsCryptEfi) /\ HasCryptData /\ ret.cryptPass = "") => ~ret.err.isNil

\* C14 as amended: with such a child Validate fails, and the error is the
\* one about the encryption of /boot unless the device is no disk, declares
\* size 0 and a child of size 0 stands before the first such child, in which
\* case it is the error about both sizes being 0; the rest as stated.
C14_CryptBootRejectedInOrder ==
    ret.op = "Validate" =>
        /\ HasChild(IsCryptEfi) =>
               ret.err = IF NoSizeWithin(FirstCryptEfi - 1) THEN NoSizeError
                         ELSE CryptBootError
        /\ (~HasChild(IsCryptEfi) /\ HasCryptData /\ ret.cryptPass = "") => ~ret.err.isNil

\* an encrypted EFI partition that comes second, rejected with a passphrase
\* given and for a legacy BIOS
C14_Witness ==
    /\ ret.op = "Validate" /\ ret.legacyBios /\ ret.cryptPass = "secret"
    /\ ret.err = CryptBootError
    /\ Len(PlanChildren) = 2
    /\ PlanChildren[1].MountPoint = "/"
    /\ IsCryptEfi(PlanChildren[2])

RECURSIVE RecursiveSum(_, _)
\* the sum over the first n children of p, a child that has children
\* counting as the sum over its own children
RecursiveSum(p, n) ==
    IF n = 0 THEN 0
    ELSE LET c == kids(heap, p)[n]
         IN  RecursiveSum(p, n - 1)
                 + (IF kids(heap, c) # <<>> THEN RecursiveSum(c, Len(kids(heap, c)))
                    ELSE heap[c].Size)

\* C15 as stated: DiskSize returns the declared size when it is not 0 and
\* the sum over the children does not exceed it, an error when the sum
\* exceeds a declared size that is not 0, and the sum when the declared size
\* is 0; a child that has children counts as the sum over its own children.
C15_DiskSizeSumsLeaves ==
    ret.op = "DiskSize" =>
        LET declared == heap[1].Size
            sum == RecursiveSum(1, Len(kids(heap, 1)))
        IN  /\ (declared # 0 /\ ~Less64(declared, sum)) =>
                   ret.err.isNil /\ ret.v = declared
            /\ (declared # 0 /\ Less64(declared, sum)) => ~ret.err.isNil
            /\ declared = 0 => ret.err.isNil /\ ret.v = sum

RECURSIVE Stated(_)
RECURSIVE StatedTotal(_, _)

\* the sum over the first n children of p, a child that has children
\* counting as what DiskSize is stated to return for it
StatedTotal(p, n) ==
    IF n = 0 THEN 0
    ELSE LET c == kids(heap, p)[n]
         IN  StatedTotal(p, n - 1)
                 + (IF kids(heap, c) # <<>> THEN Stated(c).v ELSE heap[c].Size)

\* what DiskSize is stated to return for p: no value when it is none for a
\* child that has children, or when the sum exceeds a declared size that is
\* not 0; else the declared size if it is not 0, else the sum
Stated(p) ==
    LET cs == kids(heap, p)
    IN  IF \E i \in 1..Len(cs) : kids(heap, cs[i]) # <<>> /\ ~Stated(cs[i]).ok
        THEN [ok |-> FALSE, v |-> 0]
        ELSE IF heap[p].Size # 0 /\ Less64(heap[p].Size, StatedTotal(p, Len(cs)))
        THEN [ok |-> FALSE, v |-> 0]
        ELSE IF heap[p].Size # 0 THEN [ok |-> TRUE, v |-> heap[p].Size]
        ELSE [ok |-> TRUE, v |-> StatedTotal(p, Len(cs))]

\* C15 as amended: as stated, except that a child that has children counts
\* as the result of its own DiskSize (its declared size when that is not 0),
\* that DiskSize returns an error when the DiskSize of such a child does,
\* and that the sums are those of unsigned 64-bit numbers.
C15_DiskSizeTrustsDeclared ==
    ret.op = "DiskSize" =>
        /\ ret.err.isNil = Stated(1).ok
        /\ ret.err.isNil => ret.v = Stated(1).v

\* a disk without a declared size: a volume group that declares 150 bytes
\* and holds one volume of 100, and a partition of 100, make 250
C15_Witness ==
    /\ ret.op = "DiskSize" /\ ret.err.isNil /\ ret.v = 250
    /\ heap[1].Size = 0
    /\ Len(PlanChildren) = 2
    /\ PlanChildren[1].Size = 150
    /\ Len(kids(heap, kids(heap, 1)[1])) = 1
    /\ PlanChildren[2].Size = 100

\* C17: after NewStandardPartitions on a disk of at least 406,000,000 bytes
\* the children of the disk are boot (vfat, "/boot", 150,000,000), swap
\* (256,000,000) and root (ext4, "/", the rest), in that order, each to be
\* made and formatted, their sizes adding up to the size of the disk; on a
\* smaller disk the root size asked for is no wrapped-around number, that
\* is, none above the size of the disk.
C17_StandardLayout ==
    ret.op = "NewStandardPartitions" =>
        IF ~Less64(heap[1].Size, 406000000)
        THEN /\ Len(PlanChildren) = 3
             /\ \A i \in 1..3 :
                    /\ PlanChildren[i].MakePartition
                    /\ PlanChildren[i].FormatPartition
             /\ PlanChildren[1].FsType = "vfat" /\ PlanChildren[1].MountPoint = "/boot"
             /\ PlanChildren[1].Size = 150000000
             /\ PlanChildren[2].FsType = "swap" /\ PlanChildren[2].Size = 256000000
             /\ PlanChildren[3].FsType = "ext4" /\ PlanChildren[3].MountPoint = "/"
             /\ PlanChildren[3].Size = heap[1].Size - 406000000
             /\ PlanChildren[1].Size + PlanChildren[2].Size + PlanChildren[3].Size
                    = heap[1].Size
        ELSE ~Less64(heap[1].Size, ret.rootSize)

----------------------------------------------------------------------------
(* Properties of FreeSpace and UpdateBlockDevices on the trees of the tree *)
(* specification.                                                          *)

RECURSIVE SizesOfFirst(_, _)
\* the sum of the sizes of the first n children of p
SizesOfFirst(p, n) ==
    IF n = 0 THEN 0 ELSE SizesOfFirst(p, n - 1) + heap[kids(heap, p)[n]].Size

\* C16: FreeSpace on a disk or a loop device returns the size of the
\* device less the sizes of the children it has when called, which is never
\* more than the size of the device; on a device of another type it returns
\* an error.
C16_FreeSpaceWithinSize ==
    ret.op = "FreeSpace" =>
        IF heap[ret.bd].Type \in {BlockDeviceTypeDisk, BlockDeviceTypeLoop}
        THEN /\ ret.err.isNil
             /\ ret.v = heap[ret.bd].Size - SizesOfFirst(ret.bd, Len(kids(heap, ret.bd)))
             /\ ~Less64(heap[ret.bd].Size, ret.v)
        ELSE ~ret.err.isNil

\* the string lsblk gives for a key: null reads as ""
Str(t) == IF t.kind = "string" THEN t.s ELSE ""

RECURSIVE Matches(_, _)
\* the pairs of a device of the tree at n and the listed device of ds it
\* matches: the names are the same, and so are those of the devices above
Matches(n, ds) ==
    UNION {{<<n, ds[i]>>}
               \cup UNION {Matches(c, ds[i].children.list) : c \in Range(kids(heap, n))} :
           i \in {j \in 1..Len(ds) : Str(ds[j].name) = heap[n].Name}}

\* a device but for its Label and UUID
ButIdentity(bd) == [bd EXCEPT !.Label = "", !.UUID = ""]

\* C18: after UpdateBlockDevices has returned no error, each device without
\* children of the tree it was given that matches a listed device has that
\* device's Label and UUID, and no device of the tree has changed in another
\* field; after it has returned an error no device of the tree has changed.
C18_UpdateRefreshesLeaves ==
    ret.op = "UpdateBlockDevices" =>
        LET now == Preorder(heap, <<ret.bd>>)
        IN  /\ Len(now) = Len(ret.before)
            /\ ret.err.isNil =>
                   /\ \A m \in Matches(ret.bd, ret.fresh) :
                          kids(heap, m[1]) = <<>> =>
                              /\ heap[m[1]].Label = Str(m[2].label)
                              /\ heap[m[1]].UUID = Str(m[2].uuid)
                   /\ \A i \in 1..Len(now) :
                          ButIdentity(Snapshot(heap[now[i]])) = ButIdentity(ret.before[i])
            /\ ~ret.err.isNil =>
                   \A i \in 1..Len(now) : Snapshot(heap[now[i]]) = ret.before[i]

----------------------------------------------------------------------------
(* Properties of the size strings.                                         *)

\* the number and the unit letter of a string that ends in one letter
wholeOf(s) == SubSeq(s, 1, Len(s) - 1)
unitIn(s) == SubSeq(s, Len(s), Len(s))

\* a whole number followed by a unit letter in either case
IsWholeSize(s) ==
    Len(s) >= 2 /\ unitIn(s) \in UnitLetters /\ AllDigits(wholeOf(s))

\* C19: for a whole number n and a unit letter u of b, k, m, g, t, p in
\* either case, ParseVolumeSize of n followed by u returns n * 1024^k and
\* ParseVolumeHumanSize of it returns n * 1000^k without an error, k being
\* the unit's power and the result being within 64 bits; and the size
\* token "10M" of a listing decodes to 10485760, as the number token
\* 10485760 does.
C19_ParseScales ==
    /\ (/\ ret.op = "ParseVolumeSize"
        /\ IsWholeSize(ret.arg.str)
        /\ BitLen(BinaryExact(wholeOf(ret.arg.str), unitIn(ret.arg.str))) <= 64)
           => /\ ret.err = ""
              /\ ret.v = BinaryExact(wholeOf(ret.arg.str), unitIn(ret.arg.str))
    /\ (/\ ret.op = "ParseVolumeHumanSize"
        /\ IsWholeSize(ret.arg.str)
        /\ BitLen(DecimalExact(wholeOf(ret.arg.str), unitIn(ret.arg.str))) <= 64)
           => /\ ret.err = ""
              /\ ret.v = DecimalExact(wholeOf(ret.arg.str), unitIn(ret.arg.str))
    /\ (ret.op = "getNextByteToken" /\ ret.arg.tok = StrTok("10M"))
           => /\ ret.err = ""
              /\ ret.v = 10485760
              /\ ret.v = getNextByteToken(NumTok(10485760), "size").v

\* the formatter was asked for size in the unit K, M, G, T or P without
\* decimals, and size is n * 1000^k for a whole number n >= 1
IsWholeOfUnit(arg) ==
    /\ arg.size # <<>>
    /\ arg.precision = 0
    /\ arg.unit \in {"K", "M", "G", "T", "P"}
    /\ ~overPow10(arg.size, 3 * UnitPower(ToLower(arg.unit)), FALSE).left

\* the decimal numeral of n for arg.size = n * 1000^k
numeralOf(arg) ==
    ToDecimal(overPow10(arg.size, 3 * UnitPower(ToLower(arg.unit)), FALSE).q)

\* C20: for a whole number n >= 1 and a unit u of K, M, G, T, P,
\* HumanReadableSizeWithUnitAndPrecision(n * 1000^k, u, 0) returns the
\* decimal numeral of n followed by u, no zero of n being stripped, and
\* ParseVolumeHumanSize of that text returns n * 1000^k.
C20_FormatRoundTrip ==
    /\ (ret.op = "HumanReadableSizeWithUnitAndPrecision" /\ IsWholeOfUnit(ret.arg))
           => /\ ret.err = ""
              /\ ret.text = numeralOf(ret.arg) \o ret.arg.unit
    /\ (ret.op = "ParseVolumeHumanSize" /\ IsWholeOfUnit(ret.arg))
           => /\ ret.err = ""
              /\ ret.v = ret.arg.size

----------------------------------------------------------------------------
(* Properties of findFree.                                                 *)

\* the places of the rows of a table that are free space of at least size
\* bytes: number 0, filesystem free
FreeOfSize(rows, size) ==
    {i \in 1..Len(rows) :
        rows[i].Number = 0 /\ rows[i].FileSystem = "free" /\ ~Less64(rows[i].Size, size)}

\* C21: findFree(size) returns a copy of the first row, in the order of the
\* partition table, that has number 0, filesystem free and a size of at
\* least size, also when a later such row is smaller; it returns nil when
\* there is no such row; and the device's partition table and its rows are
\* after the call what they were before it.
C21_FindFreeFirstFit ==
    ret.op = "findFree" =>
        LET rows == ret.before.rows
            free == FreeOfSize(rows, ret.size)
        IN  /\ free = {} => ret.v.isNil
            /\ free # {} =>
                   /\ ~ret.v.isNil
                   /\ ret.v.live = 0
                   /\ \E i \in free : /\ \A j \in free : i <= j
                                      /\ ret.v.part = rows[i]
            /\ heap[ret.bd].PartTable = ret.before

\* findFree has returned the first free row that fits although a later
\* free row fits and is smaller, after a row that is no free space
C21_Witness ==
    /\ ret.op = "findFree"
    /\ ~ret.v.isNil
    /\ ret.before.rows[1].Number # 0
    /\ ret.v.part = ret.before.rows[2]
    /\ 3 \in FreeOfSize(ret.before.rows, ret.size)
    /\ Less64(ret.before.rows[3].Size, ret.v.part.Size)

----------------------------------------------------------------------------
(* Properties of RemoveChild on children added without a name.             *)

\* the children the device had before the call but for the one removed
OtherChildren ==
    SubSeq(ret.before, 1, ret.at - 1) \o SubSeq(ret.before, ret.at + 1, Len(ret.before))

\* C22: after parent.RemoveChild(child) for a child that was an element of
\* parent.Children, whatever AddChild and RemoveChild calls came before,
\* parent has exactly one child less, and every other child it had is still
\* there, those added without a name and not yet given a partition number
\* too.
C22_RemovesOneChild ==
    (ret.op = "RemoveChild" /\ ret.at >= 1) =>
        LET now == kids(heap, ret.bd)
        IN  /\ Len(now) = Len(ret.before) - 1
            /\ \A i \in 1..Len(OtherChildren) :
                   /\ i <= Len(now)
                   /\ \A f \in {"UUID", "Label", "FsType", "MountPoint", "Size", "partition"} :
                          heap[now[i]][f] = OtherChildren[i][f]

====
